---- MODULE Spec2Model ----
(***************************************************************************)
(* Valuation formulas of vietchuong/modeling_financial:                    *)
(*   creating-financial-models/ddm_model.py        (DDMModel)              *)
(*   creating-financial-models/fcfe_model.py       (FCFEModel)             *)
(*   creating-financial-models/relative_valuation.py (RelativeValuation)   *)
(*   scripts/run_dcf.py                            (DCFModel)              *)
(*   scripts/run_all_valuations.py                 (inline FCFF block)     *)
(*                                                                         *)
(* Python numbers are modelled as exact rationals <<n, d>> (d > 0, lowest  *)
(* terms); None is the empty tuple; a dict is a function on its keys; a    *)
(* list is a sequence.  Every call records its name in `op` and its        *)
(* outcome in `ret`: a returned value or the exception that escaped.       *)
(***************************************************************************)
EXTENDS Integers, Sequences, FiniteSets, TLC

VARIABLES
    op,                 \* name of the last public operation called
    ret,                \* its outcome: Return(value) or Raise(exception)
    ddm_historical,     \* DDMModel.historical
    ddm_ke_components,  \* DDMModel.ke_components
    ddm_results,        \* DDMModel.results
    fcfe_historical,    \* FCFEModel.historical
    fcfe_assumptions,   \* FCFEModel.assumptions
    fcfe_ke_components, \* FCFEModel.ke_components
    fcfe_projections,   \* FCFEModel.projections
    fcfe_valuation,     \* FCFEModel.valuation
    rv_financials,      \* RelativeValuation.financials
    rv_peers,           \* RelativeValuation.peers (insertion-ordered items)
    rv_results,         \* RelativeValuation.results
    dcf_historical,     \* DCFModel.historical
    dcf_assumptions,    \* DCFModel.assumptions
    dcf_wacc_components,\* DCFModel.wacc_components
    dcf_projections,    \* DCFModel.projections
    dcf_valuation,      \* DCFModel.valuation
    args,               \* the arguments of the last call
    calls               \* number of public calls made on the objects so far

ddmVars == <<ddm_historical, ddm_ke_components, ddm_results>>
fcfeVars == <<fcfe_historical, fcfe_assumptions, fcfe_ke_components,
              fcfe_projections, fcfe_valuation>>
rvVars == <<rv_financials, rv_peers, rv_results>>
dcfVars == <<dcf_historical, dcf_assumptions, dcf_wacc_components,
             dcf_projections, dcf_valuation>>
vars == <<op, ret, args, calls, ddmVars, fcfeVars, rvVars, dcfVars>>

----------------------------------------------------------------------------
(* Bounds of the explored inputs.                                          *)

\* longest historical series (number of years)
MaxYears == 2
\* largest number of explicit projection / high-growth years
MaxN == 2
\* longest ke_range / g_range of a sensitivity sweep
MaxRange == 2

----------------------------------------------------------------------------
(* Python values.                                                          *)

None == <<>>
EmptyDict == <<>>

Return(v) == [kind |-> "return", val |-> v]
Raise(e) == [kind |-> "raise", exc |-> e]
Raised(r) == r.kind = "raise"

\* d[k] = v on a dict
DictSet(d, k, v) == [x \in (DOMAIN d) \cup {k} |-> IF x = k THEN v ELSE d[x]]
\* d.get(k, default)
DictGet(d, k, default) == IF k \in DOMAIN d THEN d[k] ELSE default
\* lst[-1]
Last(s) == s[Len(s)]

----------------------------------------------------------------------------
(* Exact arithmetic standing for Python's float arithmetic.                *)

AbsInt(a) == IF a < 0 THEN -a ELSE a

RECURSIVE GCD(_, _)
GCD(a, b) == IF b = 0 THEN a ELSE GCD(b, a % b)

Rat(n, d) ==
    LET s == IF d < 0 THEN -1 ELSE 1
        g == GCD(AbsInt(n), AbsInt(d))
    IN  <<(s * n) \div g, (s * d) \div g>>

Num(n) == <<n, 1>>
Zero == <<0, 1>>
One == <<1, 1>>

RAdd(a, b) ==
    LET g == GCD(a[2], b[2])
        l == (a[2] \div g) * b[2]
    IN  Rat(a[1] * (l \div a[2]) + b[1] * (l \div b[2]), l)
RNeg(a) == <<-a[1], a[2]>>
RSub(a, b) == RAdd(a, RNeg(b))
RMul(a, b) ==
    LET g1 == GCD(AbsInt(a[1]), b[2])
        g2 == GCD(AbsInt(b[1]), a[2])
    IN  Rat((a[1] \div g1) * (b[1] \div g2), (a[2] \div g2) * (b[2] \div g1))
\* b # Zero; the callers model ZeroDivisionError where b can be zero
RDiv(a, b) == RMul(a, Rat(b[2], b[1]))
RLt(a, b) == RSub(a, b)[1] < 0
RLe(a, b) == RSub(a, b)[1] <= 0
RGt(a, b) == RLt(b, a)
RMax(a, b) == IF RLt(a, b) THEN b ELSE a
RMin(a, b) == IF RLt(b, a) THEN b ELSE a

RECURSIVE RPow(_, _)
RPow(a, k) == IF k = 0 THEN One ELSE RMul(a, RPow(a, k - 1))

RECURSIVE RSum(_)
RSum(s) == IF s = <<>> THEN Zero ELSE RAdd(RSum(SubSeq(s, 1, Len(s) - 1)), Last(s))

\* Python truthiness of a number or None
Truthy(x) == x # None /\ x[1] # 0

\* f"{x:.1%}": the value in tenths of a percent, rounded half to even
Pct1(x) ==
    LET m == RMul(x, Num(1000))
        q == m[1] \div m[2]
        r2 == 2 * (m[1] % m[2])
    IN  IF r2 < m[2] THEN q
        ELSE IF r2 > m[2] THEN q + 1
        ELSE IF q % 2 = 0 THEN q ELSE q + 1

----------------------------------------------------------------------------
(* DDMModel (creating-financial-models/ddm_model.py)                       *)

\* dps list of set_historical_dividends
DDM_dps(n, dividends_paid, shares) ==
    [i \in 1..n |-> IF RGt(shares, Zero)
                    THEN RMul(RDiv(dividends_paid[i], shares), Num(1000))
                    ELSE Zero]

\* payout list of set_historical_dividends
DDM_payout(n, dividends_paid, net_income) ==
    [i \in 1..n |-> IF net_income[i] # Zero
                    THEN RDiv(dividends_paid[i], net_income[i])
                    ELSE Zero]

\* div_growth list of set_historical_dividends (one entry per year after the first)
DDM_div_growth(n, dps) ==
    [i \in 1..(IF n > 0 THEN n - 1 ELSE 0) |->
        IF RGt(dps[i], Zero) THEN RSub(RDiv(dps[i + 1], dps[i]), One) ELSE Zero]

\* sum(x) / len(x) if x else 0
AvgOrZero(x) == IF Len(x) > 0 THEN RDiv(RSum(x), Num(Len(x))) ELSE Zero

DDM_historical_dict(years, dividends_paid, net_income, shares) ==
    LET n == Len(years)
        dps == DDM_dps(n, dividends_paid, shares)
        payout == DDM_payout(n, dividends_paid, net_income)
        div_growth == DDM_div_growth(n, dps)
    IN  [years |-> years,
         dividends_paid |-> dividends_paid,
         net_income |-> net_income,
         shares |-> shares,
         dps |-> dps,
         payout_ratio |-> payout,
         avg_payout |-> AvgOrZero(payout),
         avg_dps |-> AvgOrZero(dps),
         div_growth |-> div_growth,
         avg_div_growth |-> AvgOrZero(div_growth)]

\* rf + beta * market_premium, stored with its inputs
KeComponents(risk_free_rate, beta, market_premium) ==
    [risk_free_rate |-> risk_free_rate,
     beta |-> beta,
     market_premium |-> market_premium,
     ke |-> RAdd(risk_free_rate, RMul(beta, market_premium))]

\* a default of d0 taken from the first historical year
DDM_default_d0_first(h, d0) ==
    IF d0 # None THEN d0
    ELSE IF DictGet(h, "dps", <<>>) # <<>> THEN h["dps"][1] ELSE Zero

\* default of d0: the last historical DPS, 0 without one
DDM_default_d0(h, d0) ==
    IF d0 # None THEN d0
    ELSE IF DictGet(h, "dps", <<>>) # <<>> THEN Last(h["dps"]) ELSE Zero

\* default of g in gordon_growth
DDM_default_g(h, g) ==
    IF g # None THEN g ELSE DictGet(h, "avg_div_growth", Rat(3, 100))

\* default of g_high in two_stage_ddm and h_model
DDM_default_g_high(h, g_high) ==
    IF g_high # None THEN g_high
    ELSE RMax(DictGet(h, "avg_div_growth", Rat(8, 100)), Rat(5, 100))

\* default of g_stable in two_stage_ddm and h_model
DDM_default_g_stable(g_stable) ==
    IF g_stable # None THEN g_stable ELSE Rat(3, 100)

\* default of ke
DDM_default_ke(kc, ke) ==
    IF ke # None THEN ke ELSE DictGet(kc, "ke", Rat(1, 10))

\* the guard with the comparison reversed
DDM_precondition_fails_reversed(ke, g) == RLe(g, ke)

\* the guard `ke <= g` of the three DDM variants
DDM_precondition_fails(ke, g) == RLe(ke, g)

DDM_error(method, ke, gname, g) ==
    [method |-> method,
     error |-> <<"Ke (", Pct1(ke), "%) must be > ", gname, " (", Pct1(g), "%)">>]

\* next year's dividend left at this year's level
DDM_d1_not_grown(d0, g) == d0

\* `d1 = d0 * (1 + g)`
DDM_d1(d0, g) == RMul(d0, RAdd(One, g))

\* the price with the spread taken the other way round
DDM_gordon_price_negated(d1, ke, g) == RDiv(d1, RSub(g, ke))

\* the price with the rates added in the denominator
DDM_gordon_price_summed(d1, ke, g) == RDiv(d1, RAdd(ke, g))

\* `price = d1 / (ke - g)`
DDM_gordon_price(d1, ke, g) == RDiv(d1, RSub(ke, g))

\* the outcome of gordon_growth(d0, g, ke) on a model with historical h and
\* ke_components kc
gordon_growth(h, kc, d0_, g_, ke_) ==
    LET d0 == DDM_default_d0(h, d0_)
        g == DDM_default_g(h, g_)
        ke == DDM_default_ke(kc, ke_)
        d1 == DDM_d1(d0, g)
        price == DDM_gordon_price(d1, ke, g)
    IN  IF DDM_precondition_fails(ke, g)
        THEN Return(DDM_error("Gordon Growth Model", ke, "g", g))
        ELSE Return([method |-> "Gordon Growth Model",
                     d0 |-> d0,
                     d1 |-> d1,
                     growth_rate |-> g,
                     ke |-> ke,
                     target_price |-> price,
                     dividend_yield |->
                        IF RGt(price, Zero)
                        THEN RMul(RDiv(d1, price), Num(100)) ELSE Zero])

\* a value discounted one year too many
DDM_discounted_year_late(v, ke, t) == RDiv(v, RPow(RAdd(One, ke), t + 1))

\* a value discounted at simple interest
DDM_discounted_simple(v, ke, t) == RDiv(v, RAdd(One, RMul(ke, Num(t))))

\* `v / ((1 + ke) ** t)`
DDM_discounted(v, ke, t) == RDiv(v, RPow(RAdd(One, ke), t))

\* the loop of stage 1: one entry per year 1..N
RECURSIVE stage1_dividends(_, _, _, _)
stage1_dividends(d0, g_high, ke, N) ==
    IF N <= 0 THEN <<>>
    ELSE LET prev == stage1_dividends(d0, g_high, ke, N - 1)
             d_prev == IF N = 1 THEN d0 ELSE prev[N - 1].dividend
             d_t == RMul(d_prev, RAdd(One, g_high))
             pv == DDM_discounted(d_t, ke, N)
         IN  Append(prev, [year |-> N, dividend |-> d_t, pv |-> pv])

two_stage_ddm(h, kc, d0_, g_high_, g_stable_, high_growth_years, ke_) ==
    LET d0 == DDM_default_d0(h, d0_)
        g_high == DDM_default_g_high(h, g_high_)
        g_stable == DDM_default_g_stable(g_stable_)
        ke == DDM_default_ke(kc, ke_)
        N == high_growth_years
        s1 == stage1_dividends(d0, g_high, ke, N)
        pv_stage1 == RSum([t \in 1..Len(s1) |-> s1[t].pv])
        d_t == IF Len(s1) = 0 THEN d0 ELSE Last(s1).dividend
        d_terminal == RMul(d_t, RAdd(One, g_stable))
        terminal_price == RDiv(d_terminal, RSub(ke, g_stable))
        pv_terminal == DDM_discounted(terminal_price, ke, N)
        price == RAdd(pv_stage1, pv_terminal)
    IN  IF DDM_precondition_fails(ke, g_stable)
        THEN Return(DDM_error("Two-Stage DDM", ke, "g_stable", g_stable))
        ELSE IF N >= 1 /\ RAdd(One, ke) = Zero
        THEN Raise("ZeroDivisionError")
        ELSE Return([method |-> "Two-Stage DDM",
                     d0 |-> d0,
                     g_high |-> g_high,
                     g_stable |-> g_stable,
                     high_growth_years |-> N,
                     ke |-> ke,
                     pv_stage1 |-> pv_stage1,
                     pv_terminal |-> pv_terminal,
                     terminal_price |-> terminal_price,
                     terminal_pct |->
                        IF RGt(price, Zero)
                        THEN RMul(RDiv(pv_terminal, price), Num(100)) ELSE Zero,
                     target_price |-> price,
                     stage1_dividends |-> s1])

\* the extra component on the whole of g_high
DDM_h_extra_value_on_g_high(d0, hh, g_high, g_stable, ke) ==
    RDiv(RMul(RMul(d0, hh), g_high), RSub(ke, g_stable))

\* `extra_value = d0 * h * (g_high - g_stable) / (ke - g_stable)`
DDM_h_extra_value(d0, hh, g_high, g_stable, ke) ==
    RDiv(RMul(RMul(d0, hh), RSub(g_high, g_stable)), RSub(ke, g_stable))

h_model(h, kc, d0_, g_high_, g_stable_, half_life_years, ke_) ==
    LET d0 == DDM_default_d0(h, d0_)
        g_high == DDM_default_g_high(h, g_high_)
        g_stable == DDM_default_g_stable(g_stable_)
        ke == DDM_default_ke(kc, ke_)
        hh == RDiv(Num(half_life_years), Num(2))
        stable_value == RDiv(RMul(d0, RAdd(One, g_stable)), RSub(ke, g_stable))
        extra_value == DDM_h_extra_value(d0, hh, g_high, g_stable, ke)
        price == RAdd(stable_value, extra_value)
    IN  IF DDM_precondition_fails(ke, g_stable)
        THEN Return(DDM_error("H-Model", ke, "g_stable", g_stable))
        ELSE Return([method |-> "H-Model",
                     d0 |-> d0,
                     g_high |-> g_high,
                     g_stable |-> g_stable,
                     half_life_years |-> half_life_years,
                     h |-> hh,
                     ke |-> ke,
                     stable_component |-> stable_value,
                     extra_growth_component |-> extra_value,
                     target_price |-> price])

\* every outcome stored, an error result included
DDM_store_always(results, key, r) == DictSet(results, key, r.val)

\* self.results[key] = result happens only on the success path of a variant
DDM_store(results, key, r) ==
    IF ~Raised(r) /\ "target_price" \in DOMAIN r.val
    THEN DictSet(results, key, r.val) ELSE results

\* a cell whose comparison is turned round: null when g <= ke
sensitivity_gordon_cell_reversed(d0, ke_val, g_val) ==
    IF RLe(g_val, ke_val) THEN None
    ELSE RDiv(RMul(d0, RAdd(One, g_val)), RSub(ke_val, g_val))

\* a cell priced on the dividend just paid, not on next year's
sensitivity_gordon_cell_on_d0(d0, ke_val, g_val) ==
    IF RLe(ke_val, g_val) THEN None ELSE RDiv(d0, RSub(ke_val, g_val))

\* one cell of sensitivity_gordon
sensitivity_gordon_cell(d0, ke_val, g_val) ==
    IF RLe(ke_val, g_val) THEN None
    ELSE RDiv(RMul(d0, RAdd(One, g_val)), RSub(ke_val, g_val))

\* the table of sensitivity_gordon: one row per ke, one cell per g
sensitivity_gordon(d0, ke_range, g_range) ==
    [i \in 1..Len(ke_range) |->
        [j \in 1..Len(g_range) |-> sensitivity_gordon_cell(d0, ke_range[i], g_range[j])]]

----------------------------------------------------------------------------
(* FCFEModel (creating-financial-models/fcfe_model.py)                     *)

\* [v] * n
Repeat(v, n) == [i \in 1..(IF n > 0 THEN n ELSE 0) |-> v]

\* the first year measured against a zero baseline instead of having no change
FCFE_hist_nwc_change_from_zero(nwc, i) ==
    IF i = 1 THEN nwc[i] ELSE RSub(nwc[i], nwc[i - 1])

\* nwc_change of historical year i (1-based): zero for the first year
FCFE_hist_nwc_change(nwc, i) == IF i = 1 THEN Zero ELSE RSub(nwc[i], nwc[i - 1])

\* fcfe_hist of set_historical
FCFE_fcfe_hist(n, net_income, depreciation, capex, nwc, net_borrowing) ==
    [i \in 1..n |->
        RAdd(RSub(RSub(RAdd(net_income[i], depreciation[i]), capex[i]),
                  FCFE_hist_nwc_change(nwc, i)),
             net_borrowing[i])]

\* self.historical of FCFEModel.set_historical
FCFE_historical_dict(years, net_income, depreciation, capex, nwc, net_borrowing_, dividends_) ==
    LET n == Len(years)
        net_borrowing == IF net_borrowing_ = None THEN Repeat(Zero, n)
                         ELSE net_borrowing_
        dividends == IF dividends_ = None THEN Repeat(Zero, n) ELSE dividends_
    IN  [years |-> years,
         net_income |-> net_income,
         depreciation |-> depreciation,
         capex |-> capex,
         nwc |-> nwc,
         net_borrowing |-> net_borrowing,
         dividends |-> dividends,
         fcfe |-> FCFE_fcfe_hist(n, net_income, depreciation, capex, nwc,
                                 net_borrowing),
         payout_ratio |->
            [i \in 1..n |-> IF net_income[i] # Zero
                            THEN RDiv(dividends[i], net_income[i]) ELSE Zero]]

\* FCFEModel.set_assumptions with the per-year lists left at their defaults:
\* Return(the assumptions dict), or the exception of the base_revenue default
FCFE_set_assumptions(h, projection_years, terminal_growth, base_revenue) ==
    LET n == projection_years
        ni == DictGet(h, "net_income", <<Num(1000)>>)
    IN  IF ~Truthy(base_revenue) /\ ni = <<>>
        THEN Raise("IndexError")
        ELSE Return(
          [projection_years |-> n,
           net_income_growth |-> Repeat(Rat(5, 100), n),
           revenue_growth |-> Repeat(Rat(5, 100), n),
           depr_percent_rev |-> Repeat(Rat(2, 100), n),
           capex_percent_rev |-> Repeat(Rat(2, 100), n),
           nwc_percent_rev |-> Repeat(Rat(10, 100), n),
           net_borrowing_growth |-> Repeat(Zero, n),
           terminal_growth |-> terminal_growth,
           base_revenue |-> IF Truthy(base_revenue) THEN base_revenue
                            ELSE RDiv(Last(ni), Rat(2, 10))])

\* one row of the projection loop from the year's revenue and net income
FCFE_proj_row(k, rev, ni, prev_nwc, depr_pct, capex_pct, nwc_pct, nb) ==
    [year |-> k,
     revenue |-> rev,
     net_income |-> ni,
     depreciation |-> RMul(rev, depr_pct),
     capex |-> RMul(rev, capex_pct),
     nwc |-> RMul(rev, nwc_pct),
     nwc_change |-> RSub(RMul(rev, nwc_pct), prev_nwc),
     net_borrowing |-> nb,
     fcfe |-> RAdd(RSub(RSub(RAdd(ni, RMul(rev, depr_pct)), RMul(rev, capex_pct)),
                        RSub(RMul(rev, nwc_pct), prev_nwc)),
                   nb)]

\* every year's change taken from the last historical NWC
FCFE_prev_nwc_historical(prev, h, k) == Last(h.nwc)

\* `prev_nwc` at iteration k: the last historical NWC, then `curr_nwc` of the
\* iteration before
FCFE_prev_nwc(prev, h, k) == IF k = 1 THEN Last(h.nwc) ELSE prev[k - 1].nwc

\* iteration k of the projection loop, after the rows prev of years 1..k-1
FCFE_proj_step(prev, h, a, k) ==
    Append(prev,
        FCFE_proj_row(k,
            RMul(IF k = 1 THEN a.base_revenue ELSE prev[k - 1].revenue,
                 RAdd(One, a.revenue_growth[k])),
            RMul(IF k = 1 THEN Last(h.net_income) ELSE prev[k - 1].net_income,
                 RAdd(One, a.net_income_growth[k])),
            FCFE_prev_nwc(prev, h, k),
            a.depr_percent_rev[k], a.capex_percent_rev[k], a.nwc_percent_rev[k],
            a.net_borrowing_growth[k]))

\* the rows of the projection loop for years 1..k
RECURSIVE FCFE_proj_rows(_, _, _)
FCFE_proj_rows(h, a, k) ==
    IF k <= 0 THEN <<>> ELSE FCFE_proj_step(FCFE_proj_rows(h, a, k - 1), h, a, k)

\* the projections dict: one list per field of the rows
FCFE_proj_dict(rows) ==
    [f \in {"year", "revenue", "net_income", "depreciation", "capex", "nwc",
            "nwc_change", "net_borrowing", "fcfe"} |->
        [i \in 1..Len(rows) |-> rows[i][f]]]

\* FCFEModel.project_fcfe on historical h and assumptions a:
\* Return(the projections dict) or the exception a missing key or an empty
\* list raises
FCFE_project_fcfe(h, a) ==
    IF "projection_years" \notin DOMAIN a THEN Raise("KeyError")
    ELSE IF "net_income" \notin DOMAIN h THEN Raise("KeyError")
    ELSE IF h.net_income = <<>> \/ h.nwc = <<>> THEN Raise("IndexError")
    ELSE Return(FCFE_proj_dict(FCFE_proj_rows(h, a, a.projection_years)))

\* the mutable fields of an FCFEModel, threaded through a call
FCFE_state(kc, a, proj, val) == [kc |-> kc, a |-> a, proj |-> proj, val |-> val]

\* the guard with the comparison reversed
FCFE_terminal_undefined_reversed(ke, g) == RLe(g, ke)

\* the terminal-value guard of calculate_equity_value
FCFE_terminal_undefined(ke, g) == RLe(ke, g)

\* PV of each projected FCFE
FCFE_pv_fcfe_list(fcfe, ke) ==
    [i \in 1..Len(fcfe) |-> RDiv(fcfe[i], RPow(RAdd(One, ke), i))]

\* terminal value: Gordon growth on the last projected FCFE, zero when Ke <= g
FCFE_terminal_value(fcfe, ke, g) ==
    IF FCFE_terminal_undefined(ke, g) THEN Zero
    ELSE RDiv(RMul(Last(fcfe), RAdd(One, g)), RSub(ke, g))

\* PV of the terminal value, zero when Ke <= g
FCFE_pv_terminal(terminal_value, ke, g, n) ==
    IF FCFE_terminal_undefined(ke, g) THEN Zero
    ELSE RDiv(terminal_value, RPow(RAdd(One, ke), n))

\* equity value / shares, zero without shares
FCFE_value_per_share(equity_value, shares_outstanding) ==
    IF RGt(shares_outstanding, Zero)
    THEN RDiv(equity_value, shares_outstanding) ELSE Zero

\* the valuation dict from its parts
FCFE_valuation_record(pv_fcfe_list, total_pv_fcfe, terminal_value, pv_terminal, equity_value, shares_outstanding) ==
    [equity_value |-> equity_value,
     pv_fcfe |-> total_pv_fcfe,
     pv_terminal |-> pv_terminal,
     terminal_value |-> terminal_value,
     terminal_pct |-> IF RGt(equity_value, Zero)
                      THEN RMul(RDiv(pv_terminal, equity_value), Num(100))
                      ELSE Zero,
     shares |-> shares_outstanding,
     value_per_share |-> FCFE_value_per_share(equity_value, shares_outstanding),
     pv_fcfe_detail |-> pv_fcfe_list]

\* equity_value = total_pv_fcfe + pv_terminal
FCFE_valuation_sum(pv_fcfe_list, total_pv_fcfe, terminal_value, pv_terminal, shares_outstanding) ==
    FCFE_valuation_record(pv_fcfe_list, total_pv_fcfe, terminal_value, pv_terminal,
                          RAdd(total_pv_fcfe, pv_terminal), shares_outstanding)

\* the valuation from the discounted list and the terminal value
FCFE_valuation_parts(pv_fcfe_list, terminal_value, ke, g, n, shares_outstanding) ==
    FCFE_valuation_sum(pv_fcfe_list, RSum(pv_fcfe_list), terminal_value,
                       FCFE_pv_terminal(terminal_value, ke, g, n),
                       shares_outstanding)

\* the valuation dict of calculate_equity_value from the projected fcfe list
FCFE_valuation_dict(fcfe, ke, g, n, shares_outstanding) ==
    FCFE_valuation_parts(FCFE_pv_fcfe_list(fcfe, ke),
                         FCFE_terminal_value(fcfe, ke, g), ke, g, n,
                         shares_outstanding)

\* calculate_equity_value: the valuation v is stored and returned
FCFE_valued(st, v) == [ret |-> Return(v), st |-> [st EXCEPT !.val = v]]

\* calculate_equity_value once self.projections is set
FCFE_discount(st, shares_outstanding) ==
    IF "ke" \notin DOMAIN st.kc THEN [ret |-> Raise("KeyError"), st |-> st]
    ELSE IF "terminal_growth" \notin DOMAIN st.a
    THEN [ret |-> Raise("KeyError"), st |-> st]
    ELSE IF Len(st.proj.fcfe) > 0 /\ RAdd(One, st.kc["ke"]) = Zero
    THEN [ret |-> Raise("ZeroDivisionError"), st |-> st]
    ELSE IF ~FCFE_terminal_undefined(st.kc["ke"], st.a["terminal_growth"])
            /\ st.proj.fcfe = <<>>
    THEN [ret |-> Raise("IndexError"), st |-> st]
    ELSE FCFE_valued(st, FCFE_valuation_dict(st.proj.fcfe, st.kc["ke"],
                            st.a["terminal_growth"], st.a["projection_years"],
                            shares_outstanding))

\* calculate_equity_value after its `if not self.projections: project_fcfe()`
\* with outcome pr
FCFE_value_projected(pr, st, shares_outstanding) ==
    IF Raised(pr) THEN [ret |-> pr, st |-> st]
    ELSE FCFE_discount([st EXCEPT !.proj = pr.val], shares_outstanding)

\* FCFEModel.calculate_equity_value on historical h and model fields st:
\* [ret |-> outcome, st |-> the fields after the call]
FCFE_calculate_equity_value(h, st, shares_outstanding) ==
    FCFE_value_projected(
        IF st.proj = EmptyDict THEN FCFE_project_fcfe(h, st.a) ELSE Return(st.proj),
        st, shares_outstanding)

\* one cell of the sweep after its calculate_equity_value with outcome c:
\* the value per share is appended to row i
FCFE_cell_valued(acc, c, i, j) ==
    IF Raised(c.ret) THEN [acc EXCEPT !.st = c.st, !.exc = c.ret.exc]
    ELSE [st |-> c.st,
          rows |-> IF j = 1 THEN Append(acc.rows, <<c.ret.val.value_per_share>>)
                   ELSE [acc.rows EXCEPT ![i] = Append(@, c.ret.val.value_per_share)],
          exc |-> ""]

\* one cell of the sweep after its project_fcfe with outcome pr
FCFE_cell_projected(h, acc, st0, pr, i, j, shares) ==
    IF Raised(pr) THEN [acc EXCEPT !.st = st0, !.exc = pr.exc]
    ELSE FCFE_cell_valued(acc,
            FCFE_calculate_equity_value(h, [st0 EXCEPT !.proj = pr.val], shares),
            i, j)

\* only Ke overridden, the terminal growth left as the model has it
FCFE_override_ke_only(st, ke_val, g_val) ==
    [st EXCEPT !.kc = DictSet(@, "ke", ke_val)]

\* Ke and terminal growth overridden in the model's fields
FCFE_override(st, ke_val, g_val) ==
    [st EXCEPT !.kc = DictSet(@, "ke", ke_val),
               !.a = DictSet(@, "terminal_growth", g_val)]

\* the fields st0 with Ke and terminal growth overridden, then projected
FCFE_cell_overridden(h, acc, st0, i, j, shares) ==
    FCFE_cell_projected(h, acc, st0, FCFE_project_fcfe(h, st0.a), i, j, shares)

\* cell (i, j) of the sweep
FCFE_cell(h, acc, ke_range, g_range, i, j, shares) ==
    FCFE_cell_overridden(h, acc, FCFE_override(acc.st, ke_range[i], g_range[j]),
                         i, j, shares)

\* the double loop of sensitivity_analysis for the cells after the first k of
\* the row-major grid: acc = [st, rows, exc], exc = "" while no exception has
\* escaped
RECURSIVE FCFE_sweep(_, _, _, _, _, _)
FCFE_sweep(h, ke_range, g_range, shares, k, acc) ==
    IF acc.exc # "" \/ Len(g_range) = 0 \/ k >= Len(ke_range) * Len(g_range)
    THEN acc
    ELSE FCFE_sweep(h, ke_range, g_range, shares, k + 1,
            FCFE_cell(h, acc, ke_range, g_range,
                      (k \div Len(g_range)) + 1, (k % Len(g_range)) + 1, shares))

\* the restore step once the projection is recomputed with outcome pr
FCFE_restored(st0, pr, rows) ==
    IF Raised(pr) THEN [ret |-> pr, st |-> st0]
    ELSE [ret |-> Return(rows), st |-> [st0 EXCEPT !.proj = pr.val]]

\* the restore step of sensitivity_analysis: Ke and terminal growth are put
\* back (st0) and the projection is recomputed
FCFE_restore(h, st0, rows) ==
    FCFE_restored(st0, FCFE_project_fcfe(h, st0.a), rows)

\* sensitivity_analysis after its double loop
FCFE_swept(h, swept, original_ke, original_g, ke_range, g_range) ==
    IF swept.exc # "" THEN [ret |-> Raise(swept.exc), st |-> swept.st]
    ELSE FCFE_restore(h, FCFE_override(swept.st, original_ke, original_g),
                      IF Len(g_range) = 0 THEN Repeat(<<>>, Len(ke_range))
                      ELSE swept.rows)

\* FCFEModel.sensitivity_analysis: [ret |-> outcome, st |-> the fields after]
FCFE_sensitivity_analysis(h, st, ke_range, g_range, shares_outstanding) ==
    IF "ke" \notin DOMAIN st.kc \/ "terminal_growth" \notin DOMAIN st.a
    THEN [ret |-> Raise("KeyError"), st |-> st]
    ELSE FCFE_swept(h,
            FCFE_sweep(h, ke_range, g_range, shares_outstanding, 0,
                       [st |-> st, rows |-> <<>>, exc |-> ""]),
            st.kc["ke"], st.a["terminal_growth"], ke_range, g_range)

----------------------------------------------------------------------------
(* RelativeValuation (creating-financial-models/relative_valuation.py)     *)

\* current_pe / current_pb: set only for a truthy price and a positive metric
RV_current_multiple(fin, key, current_price, metric) ==
    IF Truthy(current_price) /\ Truthy(metric) /\ RGt(metric, Zero)
    THEN DictSet(fin, key, RDiv(current_price, metric))
    ELSE fin

\* current_ev_ebitda, with ev = current_price * shares / 1000 + net_debt
RV_current_ev_ebitda(fin, current_price, ebitda, shares_outstanding, net_debt) ==
    IF Truthy(current_price) /\ Truthy(ebitda) /\ RGt(ebitda, Zero)
    THEN DictSet(fin, "current_ev_ebitda",
                 RDiv(RAdd(RDiv(RMul(current_price, shares_outstanding), Num(1000)),
                           net_debt),
                      ebitda))
    ELSE fin

\* the dict set_financials stores
set_financials(eps, bvps, ebitda, net_debt, cash, shares_outstanding, current_price, net_income, book_value, revenue) ==
    RV_current_ev_ebitda(
        RV_current_multiple(
            RV_current_multiple(
                [eps |-> eps, bvps |-> bvps, ebitda |-> ebitda,
                 net_debt |-> net_debt, cash |-> cash,
                 shares |-> shares_outstanding, current_price |-> current_price,
                 net_income |-> net_income, book_value |-> book_value,
                 revenue |-> revenue],
                "current_pe", current_price, eps),
            "current_pb", current_price, bvps),
        current_price, ebitda, shares_outstanding, net_debt)

\* every peer's value of the metric, zero and absent ones included as 0
RECURSIVE RV_values_with_zeros(_, _)
RV_values_with_zeros(peers, metric) ==
    IF peers = <<>> THEN <<>>
    ELSE <<DictGet(Head(peers), metric, Zero)>>
            \o RV_values_with_zeros(Tail(peers), metric)

\* [p[metric] for p in self.peers.values() if metric in p and p[metric]]
RECURSIVE RV_values(_, _)
RV_values(peers, metric) ==
    IF peers = <<>> THEN <<>>
    ELSE IF metric \in DOMAIN Head(peers) /\ Truthy(Head(peers)[metric])
         THEN <<Head(peers)[metric]>> \o RV_values(Tail(peers), metric)
         ELSE RV_values(Tail(peers), metric)

\* one step of sorted(): x put before the first larger element
RECURSIVE RV_insert(_, _)
RV_insert(x, s) ==
    IF s = <<>> THEN <<x>>
    ELSE IF RLt(x, Head(s)) THEN <<x>> \o s
         ELSE <<Head(s)>> \o RV_insert(x, Tail(s))

\* sorted(values)
RECURSIVE sorted(_)
sorted(values) ==
    IF values = <<>> THEN <<>>
    ELSE RV_insert(Last(values), sorted(SubSeq(values, 1, Len(values) - 1)))

\* sum(values) / len(values) if values else None
RV_mean_of(values) ==
    IF values = <<>> THEN None ELSE RDiv(RSum(values), Num(Len(values)))

\* the middle of the values as given, with mid = len(values) // 2
RV_middle_of(values) ==
    IF values = <<>> THEN None
    ELSE IF Len(values) % 2 = 0
         THEN RDiv(RAdd(values[Len(values) \div 2], values[Len(values) \div 2 + 1]),
                   Num(2))
         ELSE values[Len(values) \div 2 + 1]

peer_avg(peers, metric) == RV_mean_of(RV_values(peers, metric))

\* the middle of the usable values in peer order, without sorting them
peer_median_unsorted(peers, metric) == RV_middle_of(RV_values(peers, metric))

peer_median(peers, metric) == RV_middle_of(sorted(RV_values(peers, metric)))

\* the peer statistic wins over the caller's multiple
RV_target_peer_first(target, use_median, peers, metric) ==
    IF (IF use_median THEN peer_median(peers, metric) ELSE peer_avg(peers, metric)) # None
    THEN IF use_median THEN peer_median(peers, metric) ELSE peer_avg(peers, metric)
    ELSE target

\* the multiple applied: the caller's, else the peer median or mean
RV_target(target, use_median, peers, metric) ==
    IF target # None THEN target
    ELSE IF use_median THEN peer_median(peers, metric) ELSE peer_avg(peers, metric)

\* an error result: returned, not stored
RV_error(results, method, error) ==
    [ret |-> Return([method |-> method, error |-> error]), results |-> results]

\* a result that never carries the comparison with the market price
RV_with_current_never(fin, result, current_key, target_price) == result

\* the current_price, current multiple and upside_pct fields of a result
RV_with_current(fin, result, current_key, target_price) ==
    IF Truthy(DictGet(fin, "current_price", None))
    THEN result @@ (current_key :> DictGet(fin, current_key, None))
                @@ [current_price |-> fin["current_price"],
                    upside_pct |->
                        RMul(RSub(RDiv(target_price, fin["current_price"]), One),
                             Num(100))]
    ELSE result

\* self.results[key] = result; return result
RV_store(results, key, result) ==
    [ret |-> Return(result), results |-> DictSet(results, key, result)]

\* valuation_pe once EPS is positive and a multiple is at hand
RV_pe_priced(fin, peers, results, eps, target_pe) ==
    RV_store(results, "pe",
             RV_with_current(fin,
                             [method |-> "P/E", eps |-> eps, target_pe |-> target_pe,
                              target_price |-> RMul(eps, target_pe),
                              peer_avg_pe |-> peer_avg(peers, "pe"),
                              peer_median_pe |-> peer_median(peers, "pe")],
                             "current_pe", RMul(eps, target_pe)))

RV_pe_targeted(fin, peers, results, eps, target_pe) ==
    IF target_pe = None THEN RV_error(results, "P/E", "No target P/E available")
    ELSE RV_pe_priced(fin, peers, results, eps, target_pe)

\* the outcome and the results dict of valuation_pe
valuation_pe(fin, peers, results, target_pe, use_median) ==
    IF "eps" \notin DOMAIN fin THEN [ret |-> Raise("KeyError"), results |-> results]
    ELSE IF fin["eps"] = None \/ RLe(fin["eps"], Zero)
         THEN RV_error(results, "P/E", "EPS <= 0, cannot apply P/E")
         ELSE RV_pe_targeted(fin, peers, results, fin["eps"],
                             RV_target(target_pe, use_median, peers, "pe"))

\* valuation_pb once BVPS is positive and a multiple is at hand
RV_pb_priced(fin, peers, results, bvps, target_pb) ==
    RV_store(results, "pb",
             RV_with_current(fin,
                             [method |-> "P/B", bvps |-> bvps, target_pb |-> target_pb,
                              target_price |-> RMul(bvps, target_pb),
                              peer_avg_pb |-> peer_avg(peers, "pb"),
                              peer_median_pb |-> peer_median(peers, "pb")],
                             "current_pb", RMul(bvps, target_pb)))

RV_pb_targeted(fin, peers, results, bvps, target_pb) ==
    IF target_pb = None THEN RV_error(results, "P/B", "No target P/B available")
    ELSE RV_pb_priced(fin, peers, results, bvps, target_pb)

\* the outcome and the results dict of valuation_pb
valuation_pb(fin, peers, results, target_pb, use_median) ==
    IF "bvps" \notin DOMAIN fin THEN [ret |-> Raise("KeyError"), results |-> results]
    ELSE IF fin["bvps"] = None \/ RLe(fin["bvps"], Zero)
         THEN RV_error(results, "P/B", "BVPS <= 0, cannot apply P/B")
         ELSE RV_pb_targeted(fin, peers, results, fin["bvps"],
                             RV_target(target_pb, use_median, peers, "pb"))

\* a price that is never below zero
RV_ev_target_price_floored(equity_value, shares) ==
    IF RGt(shares, Zero) /\ RGt(equity_value, Zero)
    THEN RMul(RDiv(equity_value, shares), Num(1000)) ELSE Zero

\* target_price = equity_value / shares * 1000 if shares > 0 else 0
RV_ev_target_price(equity_value, shares) ==
    IF RGt(shares, Zero) THEN RMul(RDiv(equity_value, shares), Num(1000)) ELSE Zero

\* valuation_ev_ebitda from the enterprise value on
RV_ev_valued(fin, peers, results, ebitda, target_multiple, ev) ==
    RV_store(results, "ev_ebitda",
             RV_with_current(fin,
                             [method |-> "EV/EBITDA", ebitda |-> ebitda,
                              target_multiple |-> target_multiple,
                              enterprise_value |-> ev,
                              net_debt |-> fin["net_debt"],
                              equity_value |-> RSub(ev, fin["net_debt"]),
                              target_price |->
                                  RV_ev_target_price(RSub(ev, fin["net_debt"]),
                                                     fin["shares"]),
                              peer_avg_ev_ebitda |-> peer_avg(peers, "ev_ebitda"),
                              peer_median_ev_ebitda |-> peer_median(peers, "ev_ebitda")],
                             "current_ev_ebitda",
                             RV_ev_target_price(RSub(ev, fin["net_debt"]), fin["shares"])))

RV_ev_targeted(fin, peers, results, ebitda, target_multiple) ==
    IF target_multiple = None
    THEN RV_error(results, "EV/EBITDA", "No target multiple available")
    ELSE RV_ev_valued(fin, peers, results, ebitda, target_multiple,
                      RMul(ebitda, target_multiple))

\* the outcome and the results dict of valuation_ev_ebitda
valuation_ev_ebitda(fin, peers, results, target_multiple, use_median) ==
    IF "ebitda" \notin DOMAIN fin THEN [ret |-> Raise("KeyError"), results |-> results]
    ELSE IF fin["ebitda"] = None \/ RLe(fin["ebitda"], Zero)
         THEN RV_error(results, "EV/EBITDA", "EBITDA <= 0")
         ELSE RV_ev_targeted(fin, peers, results, fin["ebitda"],
                             RV_target(target_multiple, use_median, peers, "ev_ebitda"))

----------------------------------------------------------------------------
(* DCFModel (scripts/run_dcf.py)                                           *)

\* x / r if r else 0
DCF_ratio(x, r) == IF Truthy(r) THEN RDiv(x, r) ELSE Zero

\* [x / r if r else 0 for x, r in zip(xs, rs)]
DCF_ratios(xs, rs) ==
    [i \in 1..(IF Len(xs) < Len(rs) THEN Len(xs) ELSE Len(rs)) |-> DCF_ratio(xs[i], rs[i])]

\* the dict set_historical stores
DCF_historical_dict(years, revenue, ebitda, capex, nwc) ==
    [years |-> years, revenue |-> revenue, ebitda |-> ebitda,
     capex |-> capex, nwc |-> nwc,
     ebitda_margin |-> DCF_ratios(ebitda, revenue),
     capex_percent |-> DCF_ratios(capex, revenue),
     nwc_percent |-> DCF_ratios(nwc, revenue)]

\* a per-year assumption: the caller's list, else the historical average of
\* the ratio repeated for every projected year
DCF_default(h, key, value, proj_years) ==
    IF value # None THEN Return(value)
    ELSE IF key \notin DOMAIN h THEN Raise("KeyError")
    ELSE IF h[key] = <<>> THEN Raise("ZeroDivisionError")
    ELSE Return(Repeat(RDiv(RSum(h[key]), Num(Len(h[key]))), proj_years))

\* the assumptions dict from the resolved lists, or the first exception
DCF_assumptions_dict(proj_years, rev_growth, m, tax_rate, c, n, terminal_growth) ==
    IF Raised(m) THEN m
    ELSE IF Raised(c) THEN c
    ELSE IF Raised(n) THEN n
    ELSE Return([years |-> proj_years, rev_growth |-> rev_growth,
                 ebitda_margin |-> m.val, tax_rate |-> tax_rate,
                 capex_pct |-> c.val, nwc_pct |-> n.val,
                 terminal_growth |-> terminal_growth])

\* DCFModel.set_assumptions on historical h
DCF_set_assumptions(h, proj_years, rev_growth, ebitda_margin, tax_rate, capex_pct, nwc_pct, terminal_growth) ==
    DCF_assumptions_dict(proj_years,
        IF rev_growth = None THEN Repeat(Rat(1, 10), proj_years) ELSE rev_growth,
        DCF_default(h, "ebitda_margin", ebitda_margin, proj_years),
        tax_rate,
        DCF_default(h, "capex_percent", capex_pct, proj_years),
        DCF_default(h, "nwc_percent", nwc_pct, proj_years),
        terminal_growth)

\* the wacc_components dict from Ke and the weights
DCF_wacc_dict(ke, we, wd, cost_debt, tax_rate) ==
    [wacc |-> RAdd(RMul(we, ke), RMul(RMul(wd, cost_debt), RSub(One, tax_rate))),
     ke |-> ke, kd |-> cost_debt, we |-> we, wd |-> wd]

\* DCFModel.calc_wacc on assumptions a
calc_wacc(a, rf, beta, rm, cost_debt, d_e, tax_rate) ==
    DCF_wacc_dict(RAdd(rf, RMul(beta, rm)),
                  RDiv(One, RAdd(One, d_e)),
                  RDiv(d_e, RAdd(One, d_e)),
                  cost_debt,
                  IF tax_rate = None THEN DictGet(a, "tax_rate", Rat(1, 5)) ELSE tax_rate)

\* fcf = nopat + depr - capex - nwc_chg, with depr = rev * capex_pct
DCF_fcf(ebit, tax, depr, capex, nwc_chg) ==
    RSub(RSub(RAdd(RSub(ebit, tax), depr), capex), nwc_chg)

\* one row of the projection loop from the year's revenue and EBITDA
DCF_proj_row(k, rev, ebitda, depr, tax_rate, curr_nwc, prev_nwc) ==
    [year |-> k, revenue |-> rev, ebitda |-> ebitda, nwc |-> curr_nwc,
     fcf |-> DCF_fcf(RSub(ebitda, depr), RMul(RSub(ebitda, depr), tax_rate),
                     depr, depr, RSub(curr_nwc, prev_nwc))]

\* the row of year k from that year's revenue
DCF_proj_year(a, k, rev, prev_nwc) ==
    DCF_proj_row(k, rev, RMul(rev, a.ebitda_margin[k]), RMul(rev, a.capex_pct[k]),
                 a.tax_rate, RMul(rev, a.nwc_pct[k]), prev_nwc)

\* iteration k of the projection loop, after the rows prev of years 1..k-1
DCF_proj_step(prev, h, a, k) ==
    Append(prev,
        DCF_proj_year(a, k,
            RMul(IF k = 1 THEN Last(h.revenue) ELSE prev[k - 1].revenue,
                 RAdd(One, a.rev_growth[k])),
            IF k = 1 THEN Last(h.nwc) ELSE prev[k - 1].nwc))

\* the rows of the projection loop for years 1..k
RECURSIVE DCF_proj_rows(_, _, _)
DCF_proj_rows(h, a, k) ==
    IF k <= 0 THEN <<>> ELSE DCF_proj_step(DCF_proj_rows(h, a, k - 1), h, a, k)

\* the projections dict: only year, revenue, ebitda and fcf are appended to
DCF_proj_dict(rows) ==
    [f \in {"year", "revenue", "ebitda", "ebit", "tax", "nopat", "capex",
            "nwc_change", "fcf"} |->
        IF f \in {"year", "revenue", "ebitda", "fcf"}
        THEN [i \in 1..Len(rows) |-> rows[i][f]]
        ELSE <<>>]

\* the shortest per-year assumption list
DCF_years_given(a) ==
    RMin(RMin(Num(Len(a.rev_growth)), Num(Len(a.ebitda_margin))),
         RMin(Num(Len(a.capex_pct)), Num(Len(a.nwc_pct))))[1]

\* DCFModel.project on historical h and assumptions a: Return(the
\* projections dict) or the exception a missing key or a short list raises
project(h, a) ==
    IF "years" \notin DOMAIN a THEN Raise("KeyError")
    ELSE IF "revenue" \notin DOMAIN h THEN Raise("KeyError")
    ELSE IF h.revenue = <<>> \/ h.nwc = <<>> THEN Raise("IndexError")
    ELSE IF a.years > DCF_years_given(a) THEN Raise("IndexError")
    ELSE Return(DCF_proj_dict(DCF_proj_rows(h, a, a.years)))

\* the mutable fields of a DCFModel, threaded through a call
DCF_state(a, wc, proj, val) == [a |-> a, wc |-> wc, proj |-> proj, val |-> val]

\* pv_fcf = sum(f / (1 + wacc) ** (i + 1))
DCF_pv_fcf(fcf, wacc) ==
    RSum([i \in 1..Len(fcf) |-> RDiv(fcf[i], RPow(RAdd(One, wacc), i))])

\* the valuation dict: ev = pv_fcf + pv_term
DCF_valuation_dict(pv_fcf, term_val, pv_term) ==
    [ev |-> RAdd(pv_fcf, pv_term),
     pv_fcf |-> pv_fcf, pv_term |-> pv_term, term_val |-> term_val]

\* term_val = fcf[-1] * (1 + g) / (wacc - g)
DCF_term_val(fcf, wacc, g) == RDiv(RMul(Last(fcf), RAdd(One, g)), RSub(wacc, g))

\* calc_value after the valuation dict is known: store it, return ev
DCF_valued(st, val) ==
    [ret |-> Return(val.ev), st |-> DCF_state(st.a, st.wc, st.proj, val)]

\* calc_value from the terminal value on
DCF_terminal(st, pv_fcf, term_val, wacc, years) ==
    DCF_valued(st, DCF_valuation_dict(pv_fcf, term_val,
                                      RDiv(term_val, RPow(RAdd(One, wacc), years))))

\* calc_value once wacc, g and the cash flows are read
DCF_discount(st, fcf, wacc, g) ==
    IF RLe(wacc, g)
    THEN DCF_valued(st, DCF_valuation_dict(DCF_pv_fcf(fcf, wacc), Zero, Zero))
    ELSE IF fcf = <<>> THEN [ret |-> Raise("IndexError"), st |-> st]
    ELSE DCF_terminal(st, DCF_pv_fcf(fcf, wacc), DCF_term_val(fcf, wacc, g),
                      wacc, st.a.years)

\* calc_value on a model that has projections
DCF_value_projected(st) ==
    IF "wacc" \notin DOMAIN st.wc THEN [ret |-> Raise("KeyError"), st |-> st]
    ELSE IF "terminal_growth" \notin DOMAIN st.a
         THEN [ret |-> Raise("KeyError"), st |-> st]
    ELSE DCF_discount(st, st.proj.fcf, st.wc.wacc, st.a.terminal_growth)

\* the first line of calc_value: project() when there are no projections
DCF_projected_first(st, r) ==
    IF Raised(r) THEN [ret |-> r, st |-> st]
    ELSE DCF_value_projected(DCF_state(st.a, st.wc, r.val, st.val))

\* DCFModel.calc_value: the outcome and the fields after the call
calc_value(h, st) ==
    IF st.proj = EmptyDict THEN DCF_projected_first(st, project(h, st.a))
    ELSE DCF_value_projected(st)

\* term_val = term_fcf / (wacc - g_terminal) if wacc > g_terminal else 0
FCFF_term_val(fcf_proj, wacc, g_terminal) ==
    IF RGt(wacc, g_terminal)
    THEN RDiv(RMul(Last(fcf_proj), RAdd(One, g_terminal)), RSub(wacc, g_terminal))
    ELSE Zero

\* ev_fcff = pv_fcf + pv_term of the inline valuation of run_all_valuations
FCFF_inline_ev(fcf_proj, wacc, g_terminal) ==
    RAdd(DCF_pv_fcf(fcf_proj, wacc),
         RDiv(FCFF_term_val(fcf_proj, wacc, g_terminal),
              RPow(RAdd(One, wacc), Len(fcf_proj))))

----------------------------------------------------------------------------
(* Runs: every public call is one step.                                    *)

Init ==
    /\ op = "__init__"
    /\ ret = Return(None)
    /\ args = <<>>
    /\ calls = 0
    /\ ddm_historical = EmptyDict
    /\ ddm_ke_components = EmptyDict
    /\ ddm_results = EmptyDict
    /\ fcfe_historical = EmptyDict
    /\ fcfe_assumptions = EmptyDict
    /\ fcfe_ke_components = EmptyDict
    /\ fcfe_projections = EmptyDict
    /\ fcfe_valuation = EmptyDict
    /\ rv_financials = EmptyDict
    /\ rv_peers = <<>>
    /\ rv_results = EmptyDict
    /\ dcf_historical = EmptyDict
    /\ dcf_assumptions = EmptyDict
    /\ dcf_wacc_components = EmptyDict
    /\ dcf_projections = EmptyDict
    /\ dcf_valuation = EmptyDict

\* the sequences over S of length at most n
SeqsUpTo(S, n) == UNION {[1..k -> S] : k \in 0..n}

\* the prefixes of the list s of length at most n
PrefixesUpTo(s, n) == {SubSeq(s, 1, k) : k \in 0..(IF n < Len(s) THEN n ELSE Len(s))}

\* a call of `name` with arguments a and outcome r, within a budget of calls
Call(name, a, r, budget) ==
    /\ calls < budget
    /\ calls' = calls + 1
    /\ op' = name
    /\ args' = a
    /\ ret' = r

----------------------------------------------------------------------------
(* Runs of a DDMModel.                                                     *)

\* calls made on one DDMModel
DDM_MaxCalls == 2

DDM_Years == 2021
DDM_DividendsPaid == {Num(100), Num(120)}
DDM_D0 == {None, Num(1000)}
DDM_Rates == {None, Rat(3, 100), Rat(1, 10)}

DDM_set_historical_dividends ==
    \E n \in 0..MaxYears :
    \E dividends_paid \in [1..n -> DDM_DividendsPaid] :
        LET years == [i \in 1..n |-> DDM_Years + i - 1]
            net_income == [i \in 1..n |-> Num(200)]
            shares == Num(100)
        IN  /\ Call("set_historical_dividends",
                    [years |-> years, dividends_paid |-> dividends_paid,
                     net_income |-> net_income, shares_outstanding |-> shares],
                    Return(None), DDM_MaxCalls)
            /\ ddm_historical' =
                 DDM_historical_dict(years, dividends_paid, net_income, shares)
            /\ UNCHANGED <<ddm_ke_components, ddm_results, fcfeVars, rvVars, dcfVars>>

DDM_calculate_ke ==
    \E beta \in {Zero, One} :
        LET kc == KeComponents(Rat(3, 100), beta, Rat(7, 100))
        IN  /\ Call("calculate_ke",
                    [risk_free_rate |-> Rat(3, 100), beta |-> beta,
                     market_premium |-> Rat(7, 100)],
                    Return(kc.ke), DDM_MaxCalls)
            /\ ddm_ke_components' = kc
            /\ UNCHANGED <<ddm_historical, ddm_results, fcfeVars, rvVars, dcfVars>>

DDM_gordon_growth ==
    \E d0 \in DDM_D0, g \in DDM_Rates, ke \in DDM_Rates :
        LET r == gordon_growth(ddm_historical, ddm_ke_components, d0, g, ke)
        IN  /\ Call("gordon_growth", [d0 |-> d0, g |-> g, ke |-> ke], r, DDM_MaxCalls)
            /\ ddm_results' = DDM_store(ddm_results, "gordon", r)
            /\ UNCHANGED <<ddm_historical, ddm_ke_components, fcfeVars, rvVars, dcfVars>>

DDM_two_stage_ddm ==
    \E d0 \in DDM_D0, g_high \in {None, Rat(3, 100)}, g_stable \in {None, Rat(1, 10)},
       N \in 0..MaxN, ke \in {None, Rat(3, 100)} :
        LET r == two_stage_ddm(ddm_historical, ddm_ke_components,
                               d0, g_high, g_stable, N, ke)
        IN  /\ Call("two_stage_ddm",
                    [d0 |-> d0, g_high |-> g_high, g_stable |-> g_stable,
                     high_growth_years |-> N, ke |-> ke], r, DDM_MaxCalls)
            /\ ddm_results' = DDM_store(ddm_results, "two_stage", r)
            /\ UNCHANGED <<ddm_historical, ddm_ke_components, fcfeVars, rvVars, dcfVars>>

DDM_h_model ==
    \E d0 \in DDM_D0, g_high \in {None, Rat(3, 100)}, g_stable \in {None, Rat(1, 10)},
       ke \in {None, Rat(3, 100)} :
        LET r == h_model(ddm_historical, ddm_ke_components,
                         d0, g_high, g_stable, 5, ke)
        IN  /\ Call("h_model",
                    [d0 |-> d0, g_high |-> g_high, g_stable |-> g_stable,
                     half_life_years |-> 5, ke |-> ke], r, DDM_MaxCalls)
            /\ ddm_results' = DDM_store(ddm_results, "h_model", r)
            /\ UNCHANGED <<ddm_historical, ddm_ke_components, fcfeVars, rvVars, dcfVars>>

NextDDM ==
    \/ DDM_set_historical_dividends
    \/ DDM_calculate_ke
    \/ DDM_gordon_growth
    \/ DDM_two_stage_ddm
    \/ DDM_h_model

SpecDDM == Init /\ [][NextDDM]_vars

\* a < b and a <= b on rationals, by cross-multiplication
LessQ(a, b) == a[1] * b[2] < b[1] * a[2]
LeqQ(a, b) == a[1] * b[2] <= b[1] * a[2]

DDM_variants == {"gordon_growth", "two_stage_ddm", "h_model"}
DDM_method_tag ==
    [gordon_growth |-> "Gordon Growth Model",
     two_stage_ddm |-> "Two-Stage DDM",
     h_model |-> "H-Model"]

\* the discount rate and the growth rate the last DDM variant call compared:
\* its arguments, or the model's defaults where an argument was None
DDM_called_ke == IF args.ke # None THEN args.ke
                 ELSE IF "ke" \in DOMAIN ddm_ke_components
                      THEN ddm_ke_components["ke"] ELSE Rat(1, 10)
DDM_called_g ==
    IF op = "gordon_growth"
    THEN IF args.g # None THEN args.g
         ELSE IF "avg_div_growth" \in DOMAIN ddm_historical
              THEN ddm_historical["avg_div_growth"] ELSE Rat(3, 100)
    ELSE IF args.g_stable # None THEN args.g_stable ELSE Rat(3, 100)

\* C1: gordon_growth, two_stage_ddm and h_model never raise on a violated
\* precondition: with Ke <= growth (g for Gordon, g_stable for the others) the
\* call returns a result with the method tag and an 'error' field and no
\* 'target_price'; with Ke > growth it returns 'target_price' and no 'error'.
C1_ErrorIffKeNotAboveGrowth ==
    op \in DDM_variants =>
        /\ ret.kind = "return"
        /\ ret.val.method = DDM_method_tag[op]
        /\ LeqQ(DDM_called_ke, DDM_called_g) =>
              /\ "error" \in DOMAIN ret.val
              /\ "target_price" \notin DOMAIN ret.val
        /\ LessQ(DDM_called_g, DDM_called_ke) =>
              /\ "target_price" \in DOMAIN ret.val
              /\ "error" \notin DOMAIN ret.val

\* a Two-Stage call whose Ke comes from calculate_ke and equals g_stable
C1_Witness ==
    /\ op = "two_stage_ddm"
    /\ args.ke = None
    /\ "ke" \in DOMAIN ddm_ke_components
    /\ DDM_called_ke = DDM_called_g
    /\ "error" \in DOMAIN ret.val

----------------------------------------------------------------------------
(* gordon_growth on a model whose history and Ke have been set.            *)

Default_Betas == {Zero, One}
Default_Premiums == {Rat(7, 100), Rat(1, 10)}
Default_D0 == {None, Zero, Num(1000)}
Default_Rates == {None, Zero, Rat(1, 10)}

Default_set_historical_dividends ==
    /\ calls < DDM_MaxCalls + 1
    /\ \E n \in 1..MaxYears :
       \E dividends_paid \in [1..n -> DDM_DividendsPaid] :
        LET years == [i \in 1..n |-> DDM_Years + i - 1]
            net_income == [i \in 1..n |-> Num(200)]
            shares == Num(100)
        IN  /\ Call("set_historical_dividends",
                    [years |-> years, dividends_paid |-> dividends_paid,
                     net_income |-> net_income, shares_outstanding |-> shares],
                    Return(None), DDM_MaxCalls + 1)
            /\ ddm_historical' =
                 DDM_historical_dict(years, dividends_paid, net_income, shares)
            /\ UNCHANGED <<ddm_ke_components, ddm_results, fcfeVars, rvVars, dcfVars>>

Default_calculate_ke ==
    /\ calls < DDM_MaxCalls + 1
    /\ \E beta \in Default_Betas, market_premium \in Default_Premiums :
        LET kc == KeComponents(Rat(3, 100), beta, market_premium)
        IN  /\ Call("calculate_ke",
                    [risk_free_rate |-> Rat(3, 100), beta |-> beta,
                     market_premium |-> market_premium],
                    Return(kc.ke), DDM_MaxCalls + 1)
            /\ ddm_ke_components' = kc
            /\ UNCHANGED <<ddm_historical, ddm_results, fcfeVars, rvVars, dcfVars>>

Default_gordon_growth ==
    /\ calls < DDM_MaxCalls + 1
    /\ \E d0 \in Default_D0, g \in Default_Rates, ke \in Default_Rates :
        LET r == gordon_growth(ddm_historical, ddm_ke_components, d0, g, ke)
        IN  /\ Call("gordon_growth", [d0 |-> d0, g |-> g, ke |-> ke], r,
                    DDM_MaxCalls + 1)
            /\ ddm_results' = DDM_store(ddm_results, "gordon", r)
            /\ UNCHANGED <<ddm_historical, ddm_ke_components, fcfeVars, rvVars, dcfVars>>

NextDefaults ==
    \/ Default_set_historical_dividends
    \/ Default_calculate_ke
    \/ Default_gordon_growth

SpecDefaults == Init /\ [][NextDefaults]_vars

\* gordon_growth was called on a model holding a history and a CAPM Ke
Default_prepared ==
    /\ op = "gordon_growth"
    /\ "dps" \in DOMAIN ddm_historical
    /\ Len(ddm_historical["dps"]) > 0
    /\ "ke" \in DOMAIN ddm_ke_components

\* x is the mean of the list xs, 0 for an empty list
Default_is_mean(x, xs) ==
    IF Len(xs) = 0 THEN x = Zero ELSE RMul(x, Num(Len(xs))) = RSum(xs)

\* the inputs the claim says the call works with
Default_expected_d0 ==
    IF args.d0 # None THEN args.d0
    ELSE ddm_historical["dps"][Len(ddm_historical["dps"])]
Default_expected_ke ==
    IF args.ke # None THEN args.ke
    ELSE RAdd(ddm_ke_components["risk_free_rate"],
              RMul(ddm_ke_components["beta"], ddm_ke_components["market_premium"]))
Default_expected_g(g) ==
    IF args.g # None THEN g = args.g
    ELSE Default_is_mean(g, ddm_historical["div_growth"])

\* the result works with the expected inputs
Default_inputs_used ==
    Default_prepared =>
        IF "target_price" \in DOMAIN ret.val
        THEN /\ ret.val.d0 = Default_expected_d0
             /\ Default_expected_g(ret.val.growth_rate)
             /\ ret.val.ke = Default_expected_ke
             /\ LessQ(ret.val.growth_rate, ret.val.ke)
             /\ ret.val.target_price =
                   RDiv(RMul(Default_expected_d0, RAdd(One, ret.val.growth_rate)),
                        RSub(Default_expected_ke, ret.val.growth_rate))
        ELSE IF args.g # None
             THEN LeqQ(Default_expected_ke, args.g)
             ELSE /\ Default_expected_g(ddm_historical["avg_div_growth"])
                  /\ LeqQ(Default_expected_ke, ddm_historical["avg_div_growth"])

\* calculate_ke stores the components it was called with
Default_ke_stored ==
    op' = "calculate_ke" =>
        /\ ddm_ke_components'["risk_free_rate"] = args'.risk_free_rate
        /\ ddm_ke_components'["beta"] = args'.beta
        /\ ddm_ke_components'["market_premium"] = args'.market_premium

\* C22: gordon_growth called after set_historical_dividends and calculate_ke
\* works, for each argument left out, with D0 = the last historical DPS, g =
\* the average of the historical dividend growth series and Ke = rf + beta *
\* market premium of the most recent calculate_ke call; an argument that is
\* passed (zero included) is used instead of its default.
C22_DefaultsAndOverrides ==
    /\ []Default_inputs_used
    /\ [][Default_ke_stored]_vars

\* a call without arguments on a two-year history whose dividend fell from
\* 120 to 100 (DPS 1200 to 1000, g = -1/6) with Ke = 3% + 1 * 7%
C22_Witness ==
    /\ Default_prepared
    /\ args.d0 = None /\ args.g = None /\ args.ke = None
    /\ Len(ddm_historical["dps"]) = 2
    /\ ddm_historical["dps"][1] # ddm_historical["dps"][2]
    /\ "target_price" \in DOMAIN ret.val
    /\ ret.val.d0 = Num(1000)
    /\ ret.val.growth_rate = Rat(-1, 6)
    /\ ret.val.ke = Rat(1, 10)

\* the rates swept: negative, zero, and the two the scripts centre on
Sens_Rates == {Rat(-1, 100), Zero, Rat(3, 100), Rat(1, 10)}

\* sensitivity_gordon reads and writes no field of the model
DDM_sensitivity_gordon ==
    \E d0 \in {Num(1000)},
       ke_range \in SeqsUpTo(Sens_Rates, MaxRange),
       g_range \in SeqsUpTo(Sens_Rates, MaxRange) :
        /\ Call("sensitivity_gordon",
                [d0 |-> d0, ke_range |-> ke_range, g_range |-> g_range],
                Return(sensitivity_gordon(d0, ke_range, g_range)), 1)
        /\ UNCHANGED <<ddmVars, fcfeVars, rvVars, dcfVars>>

NextSens == DDM_sensitivity_gordon

SpecSens == Init /\ [][NextSens]_vars

\* C2: sensitivity_gordon returns one row per Ke value and one cell per g
\* value, in input order; the cell for (Ke, g) is None exactly when Ke <= g,
\* and otherwise it is the Gordon price: cell (Ke - g) = d0 (1 + g)
C2_SensitivityTable ==
    op = "sensitivity_gordon" =>
        /\ ret.kind = "return"
        /\ Len(ret.val) = Len(args.ke_range)
        /\ \A i \in 1..Len(args.ke_range) :
              /\ Len(ret.val[i]) = Len(args.g_range)
              /\ \A j \in 1..Len(args.g_range) :
                    LET ke == args.ke_range[i]
                        g == args.g_range[j]
                        cell == ret.val[i][j]
                    IN  /\ (cell = None) <=> LeqQ(ke, g)
                        /\ LessQ(g, ke) =>
                              RMul(cell, RSub(ke, g)) = RMul(args.d0, RAdd(One, g))

\* a 2 x 2 sweep given in descending Ke order with null and priced cells
C2_Witness ==
    /\ op = "sensitivity_gordon"
    /\ args.ke_range = <<Rat(1, 10), Rat(3, 100)>>
    /\ args.g_range = <<Rat(3, 100), Zero>>
    /\ ret.val[2][1] = None
    /\ ret.val[1][1] # None
    /\ ret.val[2][2] # None

----------------------------------------------------------------------------
(* Calls of the DDM variants with every argument given.                    *)

\* the dividends and rates the calls are given: a company that pays nothing,
\* the D0 of the scripts' example, and one growth rate below -100%
Arg_D0 == {Zero, Num(1000)}
Arg_GordonRates == {Rat(-3, 2), Zero, Rat(3, 100), Rat(1, 10), Rat(1, 5)}
Arg_Rates == {Rat(3, 100), Rat(1, 10), Rat(1, 5)}
Arg_HalfLives == {10}

Arg_gordon_growth ==
    \E d0 \in Arg_D0, g \in Arg_GordonRates, ke \in Arg_GordonRates :
        LET r == gordon_growth(ddm_historical, ddm_ke_components, d0, g, ke)
        IN  /\ Call("gordon_growth", [d0 |-> d0, g |-> g, ke |-> ke], r, 2)
            /\ ddm_results' = DDM_store(ddm_results, "gordon", r)
            /\ UNCHANGED <<ddm_historical, ddm_ke_components, fcfeVars, rvVars, dcfVars>>

Arg_two_stage_ddm ==
    \E d0 \in Arg_D0, g_high \in Arg_Rates, g_stable \in Arg_Rates,
       N \in 0..MaxN, ke \in Arg_Rates :
        LET r == two_stage_ddm(ddm_historical, ddm_ke_components,
                               d0, g_high, g_stable, N, ke)
        IN  /\ Call("two_stage_ddm",
                    [d0 |-> d0, g_high |-> g_high, g_stable |-> g_stable,
                     high_growth_years |-> N, ke |-> ke], r, 2)
            /\ ddm_results' = DDM_store(ddm_results, "two_stage", r)
            /\ UNCHANGED <<ddm_historical, ddm_ke_components, fcfeVars, rvVars, dcfVars>>

Arg_h_model ==
    \E d0 \in Arg_D0, g_high \in Arg_Rates, g_stable \in Arg_Rates,
       half_life_years \in Arg_HalfLives, ke \in Arg_Rates :
        LET r == h_model(ddm_historical, ddm_ke_components,
                         d0, g_high, g_stable, half_life_years, ke)
        IN  /\ Call("h_model",
                    [d0 |-> d0, g_high |-> g_high, g_stable |-> g_stable,
                     half_life_years |-> half_life_years, ke |-> ke], r, 2)
            /\ ddm_results' = DDM_store(ddm_results, "h_model", r)
            /\ UNCHANGED <<ddm_historical, ddm_ke_components, fcfeVars, rvVars, dcfVars>>

NextDDMArgs ==
    \/ Arg_gordon_growth
    \/ Arg_two_stage_ddm
    \/ Arg_h_model

SpecDDMArgs == Init /\ [][NextDDMArgs]_vars

\* two Gordon prices, or one sensitivity table
NextGordon ==
    \/ Arg_gordon_growth
    \/ DDM_sensitivity_gordon

SpecGordon == Init /\ [][NextGordon]_vars

\* the last call was a priced gordon_growth
Gordon_priced ==
    /\ op = "gordon_growth"
    /\ ret.kind = "return"
    /\ "target_price" \in DOMAIN ret.val

\* C11 as stated: whenever Ke > g, the target price gordon_growth returns is
\* strictly positive.
C11_PricePositive ==
    (op = "gordon_growth" /\ LessQ(args.g, args.ke)) =>
        /\ Gordon_priced
        /\ LessQ(Zero, ret.val.target_price)

\* C11: when Ke > g, D0 > 0 and g > -1, the target price gordon_growth
\* returns is strictly positive; with D0 = 0 it is zero.
C11_PricePositiveForPositiveDividend ==
    (op = "gordon_growth" /\ LessQ(args.g, args.ke)) =>
        /\ Gordon_priced
        /\ (LessQ(Zero, args.d0) /\ LessQ(Num(-1), args.g)) =>
              LessQ(Zero, ret.val.target_price)
        /\ args.d0 = Zero => ret.val.target_price = Zero

\* a priced call with a positive dividend and no growth
C11_Witness ==
    /\ Gordon_priced
    /\ args.d0 = Num(1000)
    /\ args.g = Zero
    /\ args.ke = Rat(3, 100)
    /\ LessQ(Zero, ret.val.target_price)

\* this call and the next are priced gordon_growth calls on the same D0
Gordon_pair ==
    /\ Gordon_priced
    /\ Gordon_priced'
    /\ args'.d0 = args.d0

\* the next call has a higher g under the same Ke: its price is higher; it has
\* a higher Ke over the same g: its price is lower
Gordon_ordered ==
    /\ (args'.ke = args.ke /\ LessQ(args.g, args'.g)) =>
          LessQ(ret.val.target_price, ret'.val.target_price)
    /\ (args'.g = args.g /\ LessQ(args.ke, args'.ke)) =>
          LessQ(ret'.val.target_price, ret.val.target_price)

\* the non-null cells of a sensitivity table rise along each row (g rising)
\* and fall down each column (Ke rising)
Table_ordered ==
    op = "sensitivity_gordon" =>
        LET row == args.ke_range
            col == args.g_range
            t == ret.val
        IN  /\ \A i \in 1..Len(row) : \A j1, j2 \in 1..Len(col) :
                  (t[i][j1] # None /\ t[i][j2] # None /\ LessQ(col[j1], col[j2]))
                      => LessQ(t[i][j1], t[i][j2])
            /\ \A j \in 1..Len(col) : \A i1, i2 \in 1..Len(row) :
                  (t[i1][j] # None /\ t[i2][j] # None /\ LessQ(row[i1], row[i2]))
                      => LessQ(t[i2][j], t[i1][j])

\* C12 as stated: for any fixed D0 the Gordon price rises with g below a fixed
\* Ke and falls with Ke above a fixed g, and the non-null cells of
\* sensitivity_gordon are ordered the same way along rows and columns.
C12_Monotone ==
    /\ [][Gordon_pair => Gordon_ordered]_vars
    /\ []Table_ordered

\* C12: for a fixed D0 > 0 and rates above -1 the Gordon price rises with g
\* below a fixed Ke and falls with Ke above a fixed g, and the non-null cells
\* of sensitivity_gordon are ordered the same way along rows and columns.
C12_MonotoneForPositiveDividend ==
    /\ [][(/\ Gordon_pair
           /\ LessQ(Zero, args.d0)
           /\ LessQ(Num(-1), args.g)
           /\ LessQ(Num(-1), args'.g)) => Gordon_ordered]_vars
    /\ []((op = "sensitivity_gordon" /\ LessQ(Zero, args.d0)) => Table_ordered)

\* a table with a row of two prices rising with g and a column of two prices
\* falling with Ke
C12_Witness ==
    /\ op = "sensitivity_gordon"
    /\ args.ke_range = <<Rat(3, 100), Rat(1, 10)>>
    /\ args.g_range = <<Zero, Rat(3, 100)>>
    /\ ret.val[1][2] = None
    /\ LessQ(ret.val[2][1], ret.val[2][2])
    /\ LessQ(ret.val[2][1], ret.val[1][1])

\* the model holds a Gordon result and a Two-Stage result for the same D0 and
\* Ke, the Two-Stage one with both growth rates equal to the Gordon g
TwoStage_degenerate ==
    /\ "gordon" \in DOMAIN ddm_results
    /\ "two_stage" \in DOMAIN ddm_results
    /\ ddm_results["two_stage"].d0 = ddm_results["gordon"].d0
    /\ ddm_results["two_stage"].ke = ddm_results["gordon"].ke
    /\ ddm_results["two_stage"].g_high = ddm_results["gordon"].growth_rate
    /\ ddm_results["two_stage"].g_stable = ddm_results["gordon"].growth_rate

\* C13: for the same D0 and Ke > g and any N >= 0, two_stage_ddm with
\* g_high = g_stable = g returns the target price gordon_growth returns.
C13_TwoStageCollapsesToGordon ==
    TwoStage_degenerate =>
        ddm_results["two_stage"].target_price = ddm_results["gordon"].target_price

\* both results for D0 = 1000, g = 3%, Ke = 10% with two high-growth years
C13_Witness ==
    /\ TwoStage_degenerate
    /\ ddm_results["gordon"].d0 = Num(1000)
    /\ ddm_results["gordon"].growth_rate = Rat(3, 100)
    /\ ddm_results["gordon"].ke = Rat(1, 10)
    /\ ddm_results["two_stage"].high_growth_years = 2
    /\ Len(ddm_results["two_stage"].stage1_dividends) = 2

\* the model holds an H-Model result with g_high = g_stable
H_degenerate ==
    /\ "h_model" \in DOMAIN ddm_results
    /\ ddm_results["h_model"].g_high = ddm_results["h_model"].g_stable

\* the model also holds a Gordon result for the same D0, Ke and growth rate
H_with_gordon ==
    /\ "gordon" \in DOMAIN ddm_results
    /\ ddm_results["gordon"].d0 = ddm_results["h_model"].d0
    /\ ddm_results["gordon"].ke = ddm_results["h_model"].ke
    /\ ddm_results["gordon"].growth_rate = ddm_results["h_model"].g_stable

\* C14: with g_high = g_stable the H-Model's extra-growth component is exactly
\* zero and its target price is its stable component
\* D0 (1 + g_stable) / (Ke - g_stable), the price gordon_growth returns for
\* the same D0, g and Ke.
C14_HModelCollapsesToGordon ==
    H_degenerate =>
        LET r == ddm_results["h_model"]
        IN  /\ r.extra_growth_component = Zero
            /\ r.target_price = r.stable_component
            /\ RMul(r.stable_component, RSub(r.ke, r.g_stable))
                   = RMul(r.d0, RAdd(One, r.g_stable))
            /\ H_with_gordon => r.target_price = ddm_results["gordon"].target_price

\* both results for D0 = 1000, g = 10%, Ke = 20% and a ten-year half-life
C14_Witness ==
    /\ H_degenerate
    /\ H_with_gordon
    /\ ddm_results["h_model"].d0 = Num(1000)
    /\ ddm_results["h_model"].g_stable = Rat(1, 10)
    /\ ddm_results["h_model"].ke = Rat(1, 5)
    /\ ddm_results["h_model"].h = Num(5)
    /\ ddm_results["h_model"].target_price = Num(11000)

\* the call of the documented example: D0 = 1000, g = 3%, Ke = 10%
Gordon_example ==
    /\ op = "gordon_growth"
    /\ args = [d0 |-> Num(1000), g |-> Rat(3, 100), ke |-> Rat(1, 10)]

\* C15: for Ke > g gordon_growth returns target_price = D0 (1 + g) / (Ke - g)
\* and echoes d1 = D0 (1 + g); for D0 = 1000, g = 0.03, Ke = 0.10 the price is
\* 1000 x 1.03 / 0.07, which is 14,714 and a fraction.
C15_GordonFormula ==
    (op = "gordon_growth" /\ LessQ(args.g, args.ke)) =>
        /\ Gordon_priced
        /\ ret.val.d1 = RMul(args.d0, RAdd(One, args.g))
        /\ RMul(ret.val.target_price, RSub(args.ke, args.g)) = ret.val.d1
        /\ Gordon_example =>
              /\ ret.val.target_price = Rat(1000 * 103, 7)
              /\ ret.val.target_price[1] \div ret.val.target_price[2] = 14714

\* the documented example has been priced
C15_Witness ==
    /\ Gordon_example
    /\ Gordon_priced
    /\ ret.val.d1 = Num(1030)

\* D0 grown t years at g_high, for the last two_stage_ddm call
TwoStage_dividend(t) == RMul(args.d0, RPow(RAdd(One, args.g_high), t))

\* v is x discounted t years at the call's Ke
TwoStage_discounts(v, x, t) == RMul(v, RPow(RAdd(One, args.ke), t)) = x

\* C18: with Ke > g_stable, two_stage_ddm projects exactly N dividends, for
\* years 1..N, D_t = D0 (1 + g_high)^t, each discounted by (1 + Ke)^t; its
\* terminal price is D_N (1 + g_stable) / (Ke - g_stable), discounted N years;
\* target_price = pv_stage1 + pv_terminal, and terminal_pct is
\* pv_terminal / target_price x 100 when the price is positive and 0 otherwise.
C18_TwoStageStructure ==
    (op = "two_stage_ddm" /\ LessQ(args.g_stable, args.ke)) =>
        /\ ret.kind = "return"
        /\ "target_price" \in DOMAIN ret.val
        /\ LET r == ret.val
               N == args.high_growth_years
               s1 == r.stage1_dividends
           IN  /\ Len(s1) = N
               /\ \A t \in 1..N :
                     /\ s1[t].year = t
                     /\ s1[t].dividend = TwoStage_dividend(t)
                     /\ TwoStage_discounts(s1[t].pv, s1[t].dividend, t)
               /\ r.pv_stage1 = RSum([t \in 1..N |-> s1[t].pv])
               /\ RMul(r.terminal_price, RSub(args.ke, args.g_stable))
                      = RMul(TwoStage_dividend(N), RAdd(One, args.g_stable))
               /\ TwoStage_discounts(r.pv_terminal, r.terminal_price, N)
               /\ r.target_price = RAdd(r.pv_stage1, r.pv_terminal)
               /\ IF LessQ(Zero, r.target_price)
                  THEN r.terminal_pct
                          = RMul(RDiv(r.pv_terminal, r.target_price), Num(100))
                  ELSE r.terminal_pct = Zero

\* two high-growth years at 10% before a 3% stable stage, priced
C18_Witness ==
    /\ op = "two_stage_ddm"
    /\ args = [d0 |-> Num(1000), g_high |-> Rat(1, 10), g_stable |-> Rat(3, 100),
               high_growth_years |-> 2, ke |-> Rat(1, 5)]
    /\ ret.val.stage1_dividends[2].dividend = Num(1210)
    /\ LessQ(Zero, ret.val.terminal_pct)

----------------------------------------------------------------------------
(* Runs of an FCFEModel.                                                   *)

\* calls made on one FCFEModel
FCFE_MaxCalls == 5

FCFE_Years == 2022
\* the Ke rows and terminal-growth columns the sweeps are cut from
FCFE_KeGrid == <<Rat(2, 5), Rat(1, 20), Rat(1, 5)>>
FCFE_GGrid == <<Rat(1, 20), Rat(1, 50), Rat(1, 5)>>

FCFE_fields == FCFE_state(fcfe_ke_components, fcfe_assumptions,
                          fcfe_projections, fcfe_valuation)

\* the model's fields become those of st
FCFE_becomes(st) ==
    /\ fcfe_ke_components' = st.kc
    /\ fcfe_assumptions' = st.a
    /\ fcfe_projections' = st.proj
    /\ fcfe_valuation' = st.val

FCFE_set_historical(NI, DEP, NWC, NB, budget) ==
    \E n \in 0..MaxYears :
    \E net_income \in [1..n -> NI], depreciation \in [1..n -> DEP],
       nwc \in [1..n -> NWC], nb \in NB :
        LET years == [i \in 1..n |-> FCFE_Years + i - 1]
            capex == [i \in 1..n |-> Num(70)]
            net_borrowing == IF nb = None THEN None ELSE [i \in 1..n |-> nb]
        IN  /\ Call("set_historical",
                    [years |-> years, net_income |-> net_income,
                     depreciation |-> depreciation, capex |-> capex, nwc |-> nwc,
                     net_borrowing |-> net_borrowing, dividends |-> None],
                    Return(None), budget)
            /\ fcfe_historical' =
                 FCFE_historical_dict(years, net_income, depreciation, capex, nwc,
                                      net_borrowing, None)
            /\ UNCHANGED <<fcfe_assumptions, fcfe_ke_components, fcfe_projections,
                           fcfe_valuation, ddmVars, rvVars, dcfVars>>

FCFE_set_assumptions_call ==
    \E n \in 0..MaxN, base_revenue \in {None, Num(2000)} :
        LET r == FCFE_set_assumptions(fcfe_historical, n, Rat(1, 20), base_revenue)
        IN  /\ Call("set_assumptions",
                    [projection_years |-> n, terminal_growth |-> Rat(1, 20),
                     base_revenue |-> base_revenue],
                    IF Raised(r) THEN r ELSE Return(None), FCFE_MaxCalls)
            /\ fcfe_assumptions' = IF Raised(r) THEN fcfe_assumptions ELSE r.val
            /\ UNCHANGED <<fcfe_historical, fcfe_ke_components, fcfe_projections,
                           fcfe_valuation, ddmVars, rvVars, dcfVars>>

FCFE_calculate_ke ==
    \E beta \in {Zero, One} :
        LET kc == KeComponents(Rat(1, 20), beta, Rat(3, 20))
        IN  /\ Call("calculate_ke",
                    [risk_free_rate |-> Rat(1, 20), beta |-> beta,
                     market_premium |-> Rat(3, 20)],
                    Return(kc.ke), FCFE_MaxCalls)
            /\ fcfe_ke_components' = kc
            /\ UNCHANGED <<fcfe_historical, fcfe_assumptions, fcfe_projections,
                           fcfe_valuation, ddmVars, rvVars, dcfVars>>

FCFE_project_fcfe_call ==
    LET r == FCFE_project_fcfe(fcfe_historical, fcfe_assumptions)
    IN  /\ Call("project_fcfe", <<>>, r, FCFE_MaxCalls)
        /\ fcfe_projections' = IF Raised(r) THEN fcfe_projections ELSE r.val
        /\ UNCHANGED <<fcfe_historical, fcfe_assumptions, fcfe_ke_components,
                       fcfe_valuation, ddmVars, rvVars, dcfVars>>

\* a call with outcome c.ret that leaves the model's fields as c.st
FCFE_call(name, a, c) ==
    /\ Call(name, a, c.ret, FCFE_MaxCalls)
    /\ FCFE_becomes(c.st)
    /\ UNCHANGED <<fcfe_historical, ddmVars, rvVars, dcfVars>>

FCFE_calculate_equity_value_call ==
    \E shares \in {Num(0), Num(100)} :
        FCFE_call("calculate_equity_value", [shares_outstanding |-> shares],
                  FCFE_calculate_equity_value(fcfe_historical, FCFE_fields, shares))

FCFE_sensitivity_analysis_call ==
    \E ke_range \in PrefixesUpTo(FCFE_KeGrid, MaxRange),
       g_range \in PrefixesUpTo(FCFE_GGrid, MaxRange) :
        FCFE_call("sensitivity_analysis",
                  [ke_range |-> ke_range, g_range |-> g_range,
                   shares_outstanding |-> Num(100)],
                  FCFE_sensitivity_analysis(fcfe_historical, FCFE_fields,
                                            ke_range, g_range, Num(100)))

NextFCFE ==
    \/ FCFE_set_historical({Num(200)}, {Num(50)}, {Num(100)}, {None}, FCFE_MaxCalls)
    \/ FCFE_set_assumptions_call
    \/ FCFE_calculate_ke
    \/ FCFE_project_fcfe_call
    \/ FCFE_calculate_equity_value_call
    \/ FCFE_sensitivity_analysis_call

SpecFCFE == Init /\ [][NextFCFE]_vars

\* the calls that lead to a valuation, without the sweep
NextFCFEValue ==
    \/ FCFE_set_historical({Num(200)}, {Num(50)}, {Num(100)}, {None}, FCFE_MaxCalls)
    \/ FCFE_set_assumptions_call
    \/ FCFE_calculate_ke
    \/ FCFE_project_fcfe_call
    \/ FCFE_calculate_equity_value_call

SpecFCFEValue == Init /\ [][NextFCFEValue]_vars

\* set_historical alone, over varied inputs
NextFCFEHist ==
    FCFE_set_historical({Num(200), Num(250)}, {Num(50), Num(60)},
                        {Num(100), Num(120)}, {None, Num(10)}, 1)

SpecFCFEHist == Init /\ [][NextFCFEHist]_vars

\* the calls that lead to a sweep, without a separate projection or valuation
Sweep_set_historical ==
    FCFE_set_historical({Num(200)}, {Num(50)}, {Num(100)}, {None}, FCFE_MaxCalls - 1)
Sweep_set_assumptions == calls < FCFE_MaxCalls - 1 /\ FCFE_set_assumptions_call
Sweep_calculate_ke == calls < FCFE_MaxCalls - 1 /\ FCFE_calculate_ke
Sweep_sensitivity_analysis ==
    calls < FCFE_MaxCalls - 1 /\ FCFE_sensitivity_analysis_call

NextFCFESweep ==
    \/ Sweep_set_historical
    \/ Sweep_set_assumptions
    \/ Sweep_calculate_ke
    \/ Sweep_sensitivity_analysis

SpecFCFESweep == Init /\ [][NextFCFESweep]_vars

\* C3: no exception escapes the computation layer: no public operation
\* raises, also when a valuation is called before the model is set up or with
\* projection_years = 0
C3_NoOperationRaises == ret.kind # "raise"

\* C4: sensitivity_analysis restores the original state: Ke, the terminal
\* growth, the projections and the stored valuation (the figures
\* generate_summary reports) are after the call what they were before it
C4_SensitivityRestoresState ==
    [][(/\ op' = "sensitivity_analysis"
        /\ ret'.kind = "return"
        /\ fcfe_valuation # EmptyDict)
       => /\ fcfe_ke_components' = fcfe_ke_components
          /\ fcfe_assumptions' = fcfe_assumptions
          /\ fcfe_projections' = fcfe_projections
          /\ fcfe_valuation' = fcfe_valuation]_vars

\* sum of f / (1 + ke)^i over the years i..Len(fcfe), from the last year down
RECURSIVE DiscountedFrom(_, _, _)
DiscountedFrom(fcfe, ke, i) ==
    IF i > Len(fcfe) THEN Zero
    ELSE RAdd(RDiv(fcfe[i], RPow(RAdd(One, ke), i)), DiscountedFrom(fcfe, ke, i + 1))

\* C6: calculate_equity_value sets equity_value to the sum over the projected
\* years i of FCFE_i / (1 + Ke)^i plus pv_terminal; terminal_value and
\* pv_terminal are 0 when Ke <= g, else terminal_value (Ke - g) =
\* FCFE_last (1 + g) and pv_terminal (1 + Ke)^n = terminal_value;
\* value_per_share shares = equity_value, and value_per_share = 0 when
\* shares <= 0
C6_EquityValueFormula ==
    (op = "calculate_equity_value" /\ ret.kind = "return") =>
        LET v == fcfe_valuation
            ke == fcfe_ke_components["ke"]
            g == fcfe_assumptions["terminal_growth"]
            n == fcfe_assumptions["projection_years"]
            fcfe == fcfe_projections["fcfe"]
            shares == args.shares_outstanding
        IN  /\ ret.val = v
            /\ RSub(v.equity_value, v.pv_terminal) = DiscountedFrom(fcfe, ke, 1)
            /\ LeqQ(ke, g) => v.terminal_value = Zero /\ v.pv_terminal = Zero
            /\ LessQ(g, ke) =>
                  /\ fcfe # <<>>
                  /\ RMul(v.terminal_value, RSub(ke, g))
                        = RMul(Last(fcfe), RAdd(One, g))
                  /\ RMul(v.pv_terminal, RPow(RAdd(One, ke), n)) = v.terminal_value
            /\ shares[1] > 0 => RMul(v.value_per_share, shares) = v.equity_value
            /\ shares[1] <= 0 => v.value_per_share = Zero

\* a two-year projection valued with Ke above the terminal growth
C6_Witness ==
    /\ op = "calculate_equity_value"
    /\ ret.kind = "return"
    /\ Len(fcfe_projections["fcfe"]) = 2
    /\ LessQ(fcfe_assumptions["terminal_growth"], fcfe_ke_components["ke"])
    /\ fcfe_valuation.terminal_value # Zero
    /\ args.shares_outstanding = Num(100)

\* the integer an input amount stands for
AsInt(x) == x[1]

\* C7: set_historical reconstructs FCFE_t = NetIncome_t + Depreciation_t -
\* CapEx_t - (NWC_t - NWC_{t-1}) + NetBorrowing_t for every year after the
\* first, and the first year's FCFE has no NWC term whatever the NWC inputs
C7_HistoricalFCFE ==
    op = "set_historical" =>
        LET h == fcfe_historical
            nb(t) == IF args.net_borrowing = None THEN 0
                     ELSE AsInt(args.net_borrowing[t])
            base(t) == AsInt(args.net_income[t]) + AsInt(args.depreciation[t])
                         - AsInt(args.capex[t]) + nb(t)
        IN  /\ Len(h.fcfe) = Len(args.years)
            /\ \A t \in 1..Len(args.years) :
                  h.fcfe[t] =
                    Num(IF t = 1 THEN base(t)
                        ELSE base(t) - (AsInt(args.nwc[t]) - AsInt(args.nwc[t - 1])))

\* two historical years with different, non-zero NWC
C7_Witness ==
    /\ op = "set_historical"
    /\ Len(args.years) = 2
    /\ args.nwc[1] = Num(120)
    /\ args.nwc[2] = Num(100)
    /\ args.net_borrowing # None

\* the value a projected series grows from in year k: its base, then the
\* projection of the year before
Projected_from(series, base, k) == IF k = 1 THEN base ELSE series[k - 1]

\* C19: in project_fcfe the NWC change of year 1 is that year's projected NWC
\* minus the last historical NWC and the change of each year k >= 2 is the
\* year's projected NWC minus the projected NWC of year k-1, so the changes sum
\* to the final projected NWC minus the last historical NWC; each year's FCFE
\* is NI + depreciation - CapEx - NWC change + net borrowing, with revenue and
\* NI grown from the prior year's values.
C19_ProjectedNwcChange ==
    (op = "project_fcfe" /\ ret.kind = "return") =>
        LET p == ret.val
            h == fcfe_historical
            a == fcfe_assumptions
            n == a.projection_years
        IN  /\ fcfe_projections = p
            /\ \A f \in DOMAIN p : Len(p[f]) = n
            /\ \A k \in 1..n :
                  /\ p.year[k] = k
                  /\ p.revenue[k] = RMul(Projected_from(p.revenue, a.base_revenue, k),
                                         RAdd(One, a.revenue_growth[k]))
                  /\ p.net_income[k] =
                        RMul(Projected_from(p.net_income, Last(h.net_income), k),
                             RAdd(One, a.net_income_growth[k]))
                  /\ p.nwc[k] = RMul(p.revenue[k], a.nwc_percent_rev[k])
                  /\ p.nwc_change[k] =
                        RSub(p.nwc[k], Projected_from(p.nwc, Last(h.nwc), k))
                  /\ p.fcfe[k] =
                        RAdd(RSub(RSub(RAdd(p.net_income[k], p.depreciation[k]),
                                       p.capex[k]),
                                  p.nwc_change[k]),
                             p.net_borrowing[k])
            /\ n >= 1 => RSum(p.nwc_change) = RSub(p.nwc[n], Last(h.nwc))

\* a two-year projection whose second change is measured from the first
\* projected NWC, not from the historical one
C19_Witness ==
    /\ op = "project_fcfe"
    /\ ret.kind = "return"
    /\ Len(ret.val.nwc_change) = 2
    /\ ret.val.nwc[1] # Last(fcfe_historical.nwc)
    /\ ret.val.nwc_change[2] = RSub(ret.val.nwc[2], ret.val.nwc[1])
    /\ ret.val.nwc_change[2] # RSub(ret.val.nwc[2], Last(fcfe_historical.nwc))

\* value_per_share of a fresh project_fcfe + calculate_equity_value on the
\* model's historical data and assumptions, at the given Ke and terminal growth
Sweep_fresh(ke, g, shares) ==
    FCFE_calculate_equity_value(fcfe_historical,
        FCFE_state(DictSet(fcfe_ke_components, "ke", ke),
                   DictSet(fcfe_assumptions, "terminal_growth", g),
                   EmptyDict, EmptyDict),
        shares).ret.val.value_per_share

Sweep_returned == op = "sensitivity_analysis" /\ ret.kind = "return"

\* C26: sensitivity_analysis returns a len(ke_range) x len(g_range) table
\* whose cell [i][j] is value_per_share of a fresh project_fcfe +
\* calculate_equity_value at ke_range[i] and g_range[j] -- whatever the
\* model's Ke and terminal growth before the call and whatever the other
\* cells -- and is a number also when Ke <= g.
C26_CellsIndependent ==
    Sweep_returned =>
        /\ Len(ret.val) = Len(args.ke_range)
        /\ \A i \in 1..Len(args.ke_range) :
              /\ Len(ret.val[i]) = Len(args.g_range)
              /\ \A j \in 1..Len(args.g_range) :
                    /\ ret.val[i][j] # None
                    /\ ret.val[i][j] =
                         Sweep_fresh(args.ke_range[i], args.g_range[j],
                                     args.shares_outstanding)

\* a 2 x 2 sweep on a model whose own terminal growth (5%) differs from the
\* second column's (2%); the cell at Ke = g = 5% is a number
C26_Witness ==
    /\ Sweep_returned
    /\ Len(ret.val) = 2
    /\ Len(ret.val[2]) = 2
    /\ args.ke_range[2] = args.g_range[1]
    /\ args.g_range[2] # fcfe_assumptions["terminal_growth"]
    /\ ret.val[2][1] # ret.val[2][2]
    /\ ret.val[1][1] # ret.val[2][1]
    /\ RGt(ret.val[2][1], Zero)

----------------------------------------------------------------------------
(* Runs of a RelativeValuation.                                            *)

\* calls made on one RelativeValuation
RV_MaxCalls == 3
\* largest number of peers
MaxPeers == 4

RV_EPS == {None, Zero, Num(-500), Num(2000)}

\* the other inputs of set_financials: complete; book value nil and no
\* EBITDA and no price; no book value and a loss-making EBITDA; more debt
\* than the business is worth; no shares and a price of zero; a negative
\* share count and no price
RV_Others ==
    {[bvps |-> Num(10000), ebitda |-> Num(300), current_price |-> Num(20000),
      net_debt |-> Num(100), shares |-> Num(100)],
     [bvps |-> Zero, ebitda |-> None, current_price |-> None,
      net_debt |-> Num(100), shares |-> Num(100)],
     [bvps |-> None, ebitda |-> Num(-10), current_price |-> Num(20000),
      net_debt |-> Num(100), shares |-> Num(100)],
     [bvps |-> Num(10000), ebitda |-> Num(300), current_price |-> Num(20000),
      net_debt |-> Num(5000), shares |-> Num(100)],
     [bvps |-> Num(10000), ebitda |-> Num(300), current_price |-> Zero,
      net_debt |-> Num(100), shares |-> Zero],
     [bvps |-> Num(10000), ebitda |-> Num(300), current_price |-> None,
      net_debt |-> Num(100), shares |-> Num(-100)]}

\* peer sets: none; one peer without a usable P/E; the two peers of the
\* docstring; four peers with gaps
RV_PeerLists ==
    {<<>>,
     <<[pe |-> Zero, pb |-> Num(2)]>>,
     <<[pe |-> Num(12), pb |-> Num(2), ev_ebitda |-> Num(8)],
       [pe |-> Num(15), pb |-> Num(3), ev_ebitda |-> Num(10)]>>,
     <<[pe |-> Num(15), ev_ebitda |-> Zero], [pb |-> Num(3)],
       [pe |-> Num(10), ev_ebitda |-> Num(6)], [pe |-> Num(8)]>>}

\* peers for the statistics alone: a peer without P/E, a zero P/E, and the
\* P/E values 8, 10, 12, 15
RV_PeerPE ==
    {[pb |-> Num(2)], [pe |-> Zero], [pe |-> Num(8)], [pe |-> Num(10)],
     [pe |-> Num(12)], [pe |-> Num(15)]}

RV_Targets == {None, Zero, Num(10)}

RV_set_financials ==
    \E eps \in RV_EPS, o \in RV_Others :
        /\ Call("set_financials",
                [eps |-> eps, bvps |-> o.bvps, ebitda |-> o.ebitda,
                 net_debt |-> o.net_debt, cash |-> Num(50),
                 shares_outstanding |-> o.shares, current_price |-> o.current_price],
                Return(None), RV_MaxCalls)
        /\ rv_financials' = set_financials(eps, o.bvps, o.ebitda, o.net_debt, Num(50),
                                           o.shares, o.current_price, None, None, None)
        /\ UNCHANGED <<rv_peers, rv_results, ddmVars, fcfeVars, dcfVars>>

RV_set_peer_multiples(Peers, budget) ==
    \E peers \in Peers :
        /\ Call("set_peer_multiples", [peers |-> peers], Return(None), budget)
        /\ rv_peers' = peers
        /\ UNCHANGED <<rv_financials, rv_results, ddmVars, fcfeVars, dcfVars>>

\* a valuation call with outcome c.ret and results dict c.results
RV_call(name, a, c) ==
    /\ Call(name, a, c.ret, RV_MaxCalls)
    /\ rv_results' = c.results
    /\ UNCHANGED <<rv_financials, rv_peers, ddmVars, fcfeVars, dcfVars>>

RV_valuation_pe ==
    \E target_pe \in RV_Targets, use_median \in BOOLEAN :
        RV_call("valuation_pe", [target_pe |-> target_pe, use_median |-> use_median],
                valuation_pe(rv_financials, rv_peers, rv_results, target_pe, use_median))

RV_valuation_pb ==
    \E target_pb \in RV_Targets, use_median \in BOOLEAN :
        RV_call("valuation_pb", [target_pb |-> target_pb, use_median |-> use_median],
                valuation_pb(rv_financials, rv_peers, rv_results, target_pb, use_median))

RV_valuation_ev_ebitda ==
    \E target_multiple \in RV_Targets, use_median \in BOOLEAN :
        RV_call("valuation_ev_ebitda",
                [target_multiple |-> target_multiple, use_median |-> use_median],
                valuation_ev_ebitda(rv_financials, rv_peers, rv_results,
                                    target_multiple, use_median))

NextRV ==
    \/ RV_set_financials
    \/ RV_set_peer_multiples(RV_PeerLists, RV_MaxCalls)
    \/ RV_valuation_pe
    \/ RV_valuation_pb
    \/ RV_valuation_ev_ebitda

SpecRV == Init /\ [][NextRV]_vars

\* the private statistics, called on the peers as set
RV_peer_median ==
    \E metric \in {"pe"} :
        /\ Call("_peer_median", [metric |-> metric],
                Return(peer_median(rv_peers, metric)), 2)
        /\ UNCHANGED <<rvVars, ddmVars, fcfeVars, dcfVars>>

RV_peer_avg ==
    \E metric \in {"pe"} :
        /\ Call("_peer_avg", [metric |-> metric],
                Return(peer_avg(rv_peers, metric)), 2)
        /\ UNCHANGED <<rvVars, ddmVars, fcfeVars, dcfVars>>

NextRVPeers ==
    \/ RV_set_peer_multiples(SeqsUpTo(RV_PeerPE, MaxPeers), 1)
    \/ RV_peer_median
    \/ RV_peer_avg

SpecRVPeers == Init /\ [][NextRVPeers]_vars

\* the peers that have the metric present and non-zero
Usable(peers, metric) ==
    {i \in 1..Len(peers) : metric \in DOMAIN peers[i] /\ peers[i][metric] # Zero}

\* v is the k-th smallest of the metric's values over the peers I
IsKth(peers, metric, I, v, k) ==
    /\ Cardinality({j \in I : LessQ(peers[j][metric], v)}) <= k - 1
    /\ Cardinality({j \in I : LeqQ(peers[j][metric], v)}) >= k

\* m is the median of the usable values: the middle one of an odd count,
\* the average of the two middle ones of an even count, None of none
IsMedian(peers, metric, m) ==
    LET I == Usable(peers, metric)
        n == Cardinality(I)
    IN  IF n = 0 THEN m = None
        ELSE /\ m # None
             /\ n % 2 = 1 =>
                  \E i \in I : /\ peers[i][metric] = m
                               /\ IsKth(peers, metric, I, m, (n + 1) \div 2)
             /\ n % 2 = 0 =>
                  \E a, b \in I :
                     /\ IsKth(peers, metric, I, peers[a][metric], n \div 2)
                     /\ IsKth(peers, metric, I, peers[b][metric], n \div 2 + 1)
                     /\ RMul(m, Num(2)) = RAdd(peers[a][metric], peers[b][metric])

\* the sum of the usable values of the peers from position i on
RECURSIVE SumUsableFrom(_, _, _)
SumUsableFrom(peers, metric, i) ==
    IF i > Len(peers) THEN Zero
    ELSE IF i \in Usable(peers, metric)
         THEN RAdd(peers[i][metric], SumUsableFrom(peers, metric, i + 1))
         ELSE SumUsableFrom(peers, metric, i + 1)

\* m is the mean of the usable values, None of none
IsMean(peers, metric, m) ==
    IF Usable(peers, metric) = {} THEN m = None
    ELSE /\ m # None
         /\ RMul(m, Num(Cardinality(Usable(peers, metric))))
               = SumUsableFrom(peers, metric, 1)

\* the usable values are exactly the distinct values V
UsableValuesAre(peers, metric, V) ==
    /\ Cardinality(Usable(peers, metric)) = Cardinality(V)
    /\ {peers[i][metric] : i \in Usable(peers, metric)} = V

\* C8: _peer_median returns the middle element of the sorted usable values
\* for an odd count and the average of the two middle elements for an even
\* count, whatever the order of the peers: 12 for {10, 12, 15} and 11 for
\* {8, 10, 12, 15}
C8_PeerMedian ==
    op = "_peer_median" =>
        /\ ret.kind = "return"
        /\ IsMedian(rv_peers, args.metric, ret.val)
        /\ UsableValuesAre(rv_peers, args.metric, {Num(10), Num(12), Num(15)})
              => ret.val = Num(12)
        /\ UsableValuesAre(rv_peers, args.metric, {Num(8), Num(10), Num(12), Num(15)})
              => ret.val = Num(11)

\* four peers supplied out of order
C8_Witness ==
    /\ op = "_peer_median"
    /\ args.metric = "pe"
    /\ rv_peers = <<[pe |-> Num(15)], [pe |-> Num(8)], [pe |-> Num(12)], [pe |-> Num(10)]>>
    /\ ret.val = Num(11)

\* the three valuation methods: the peer metric, the company figure, the
\* name of the multiple argument and result field, and the labels
RV_methods ==
    [valuation_pe |->
        [metric |-> "pe", figure |-> "eps", target |-> "target_pe", method |-> "P/E",
         avg |-> "peer_avg_pe", median |-> "peer_median_pe",
         no_figure |-> "EPS <= 0, cannot apply P/E",
         no_target |-> "No target P/E available"],
     valuation_pb |->
        [metric |-> "pb", figure |-> "bvps", target |-> "target_pb", method |-> "P/B",
         avg |-> "peer_avg_pb", median |-> "peer_median_pb",
         no_figure |-> "BVPS <= 0, cannot apply P/B",
         no_target |-> "No target P/B available"],
     valuation_ev_ebitda |->
        [metric |-> "ev_ebitda", figure |-> "ebitda", target |-> "target_multiple",
         method |-> "EV/EBITDA",
         avg |-> "peer_avg_ev_ebitda", median |-> "peer_median_ev_ebitda",
         no_figure |-> "EBITDA <= 0",
         no_target |-> "No target multiple available"]]

\* a valuation method was called on a model whose financials are set
RV_valued == op \in DOMAIN RV_methods /\ rv_financials # EmptyDict

\* the company figure of the method called is present and positive
RV_figure_ok ==
    /\ rv_financials[RV_methods[op].figure] # None
    /\ LessQ(Zero, rv_financials[RV_methods[op].figure])

\* C9: the peer mean and median are taken over the peers that have the
\* metric present and non-zero and are None when there is none; a valuation
\* called without a multiple then returns an error result without
\* target_price, labelled 'No target ... available' when the company figure
\* is positive, and otherwise applies the statistic it was asked for
C9_PeerStatistics ==
    RV_valued =>
        LET m == RV_methods[op]
            none == Usable(rv_peers, m.metric) = {}
        IN  /\ ret.kind = "return"
            /\ "error" \notin DOMAIN ret.val =>
                  /\ IsMean(rv_peers, m.metric, ret.val[m.avg])
                  /\ IsMedian(rv_peers, m.metric, ret.val[m.median])
            /\ (args[m.target] = None /\ none) =>
                  /\ DOMAIN ret.val = {"method", "error"}
                  /\ ret.val.method = m.method
                  /\ RV_figure_ok => ret.val.error = m.no_target
            /\ (args[m.target] = None /\ ~none /\ RV_figure_ok) =>
                  /\ "error" \notin DOMAIN ret.val
                  /\ ret.val[m.target] =
                        IF args.use_median THEN ret.val[m.median] ELSE ret.val[m.avg]

\* a P/E valuation without a multiple when the only peer has a zero P/E
C9_Witness ==
    /\ op = "valuation_pe"
    /\ rv_financials # EmptyDict
    /\ rv_financials["eps"] = Num(2000)
    /\ rv_peers = <<[pe |-> Zero, pb |-> Num(2)]>>
    /\ args.target_pe = None
    /\ ret.val = [method |-> "P/E", error |-> "No target P/E available"]

\* C10: valuation_pe / valuation_pb / valuation_ev_ebitda return an error
\* result when EPS / BVPS / EBITDA is None or <= 0, whatever the peers and
\* the multiple passed; otherwise the multiple applied is the caller's when
\* one is passed and the peer statistic when not, an error is returned only
\* when there is no multiple, and the P/E (P/B) price is EPS (BVPS) times
\* the multiple applied
C10_FigureGuardAndPrice ==
    RV_valued =>
        LET m == RV_methods[op]
        IN  /\ ret.kind = "return"
            /\ ~RV_figure_ok =>
                  ret.val = [method |-> m.method, error |-> m.no_figure]
            /\ RV_figure_ok =>
                  /\ "error" \in DOMAIN ret.val
                        <=> (args[m.target] = None
                             /\ Usable(rv_peers, m.metric) = {})
                  /\ "error" \notin DOMAIN ret.val =>
                        /\ args[m.target] # None => ret.val[m.target] = args[m.target]
                        /\ (args[m.target] = None /\ args.use_median) =>
                              IsMedian(rv_peers, m.metric, ret.val[m.target])
                        /\ (args[m.target] = None /\ ~args.use_median) =>
                              IsMean(rv_peers, m.metric, ret.val[m.target])
                        /\ op # "valuation_ev_ebitda" =>
                              ret.val.target_price
                                 = RMul(rv_financials[m.figure], ret.val[m.target])

\* a P/B valuation where the caller's multiple replaces the peer mean
C10_Witness ==
    /\ op = "valuation_pb"
    /\ rv_financials # EmptyDict
    /\ rv_financials["bvps"] = Num(10000)
    /\ Len(rv_peers) = 2
    /\ args.target_pb = Num(10)
    /\ ret.val.peer_avg_pb = Rat(5, 2)
    /\ ret.val.target_price = Num(100000)

\* valuation_ev_ebitda was called with EBITDA > 0 and a multiple to apply:
\* the caller's, or a usable peer's
EV_applicable ==
    /\ op = "valuation_ev_ebitda"
    /\ rv_financials # EmptyDict
    /\ RV_figure_ok
    /\ (args.target_multiple # None \/ Usable(rv_peers, "ev_ebitda") # {})

\* C20: for EBITDA > 0 and an available multiple, valuation_ev_ebitda returns
\* enterprise_value = EBITDA x multiple, equity_value = enterprise value - net
\* debt and target_price = equity_value / shares x 1000, and target_price = 0
\* when shares <= 0; a negative equity value gives a negative target price,
\* not an error.
C20_EvEbitdaChain ==
    EV_applicable =>
        /\ ret.kind = "return"
        /\ "error" \notin DOMAIN ret.val
        /\ LET r == ret.val
               shares == rv_financials["shares"]
           IN  /\ r.enterprise_value = RMul(rv_financials["ebitda"], r.target_multiple)
               /\ r.equity_value = RSub(r.enterprise_value, rv_financials["net_debt"])
               /\ LessQ(Zero, shares) =>
                     /\ RMul(r.target_price, shares) = RMul(r.equity_value, Num(1000))
                     /\ LessQ(r.equity_value, Zero) => LessQ(r.target_price, Zero)
               /\ LeqQ(shares, Zero) => r.target_price = Zero
               /\ rv_results["ev_ebitda"] = r

\* net debt above the enterprise value: a negative price is returned
C20_Witness ==
    /\ EV_applicable
    /\ rv_financials["net_debt"] = Num(5000)
    /\ args.target_multiple = Num(10)
    /\ ret.val.equity_value = Num(-2000)
    /\ ret.val.target_price = Num(-20000)

\* the last call was a valuation method that returned a target price
RV_succeeded ==
    /\ RV_valued
    /\ ret.kind = "return"
    /\ "target_price" \in DOMAIN ret.val

\* a current market price was supplied to set_financials, and is not zero
RV_has_price ==
    /\ rv_financials["current_price"] # None
    /\ rv_financials["current_price"] # Zero

\* the target price as the method's figure and multiple give it, whatever the
\* market price
RV_price_from_figure ==
    IF op = "valuation_ev_ebitda"
    THEN IF LessQ(Zero, rv_financials["shares"])
         THEN RMul(RDiv(RSub(RMul(rv_financials["ebitda"], ret.val.target_multiple),
                             rv_financials["net_debt"]),
                        rv_financials["shares"]),
                   Num(1000))
         ELSE Zero
    ELSE RMul(rv_financials[RV_methods[op].figure], ret.val[RV_methods[op].target])

\* C21: a successful valuation_pe / valuation_pb / valuation_ev_ebitda result
\* carries upside_pct = (target_price / current_price - 1) * 100 exactly when
\* a non-zero current market price was supplied to set_financials; without
\* one it has neither current_price nor upside_pct; the target price is the
\* same either way.
C21_UpsideIffPrice ==
    RV_succeeded =>
        /\ ("upside_pct" \in DOMAIN ret.val) <=> RV_has_price
        /\ ("current_price" \in DOMAIN ret.val) <=> RV_has_price
        /\ RV_has_price =>
              /\ ret.val.current_price = rv_financials["current_price"]
              /\ ret.val.upside_pct =
                    RMul(RSub(RDiv(ret.val.target_price, rv_financials["current_price"]),
                              One),
                         Num(100))
        /\ ret.val.target_price = RV_price_from_figure

\* a P/B valuation priced at 100000 against a market price of 20000
C21_Witness ==
    /\ RV_succeeded
    /\ op = "valuation_pb"
    /\ rv_financials["current_price"] = Num(20000)
    /\ ret.val.target_price = Num(100000)
    /\ ret.val.upside_pct = Num(400)

----------------------------------------------------------------------------
(* Runs of a DCFModel, and the inline FCFF valuation.                      *)

\* calls made on one DCFModel
DCF_MaxCalls == 5

DCF_Years == 2021

\* Ke = 5% or 10% without debt; Ke = 10% with as much debt as equity
DCF_Capital ==
    {[beta |-> Zero, d_e |-> Zero], [beta |-> One, d_e |-> Zero],
     [beta |-> One, d_e |-> One]}

DCF_Growth == {Rat(1, 20), Rat(1, 10)}

DCF_fields ==
    DCF_state(dcf_assumptions, dcf_wacc_components, dcf_projections, dcf_valuation)

DCF_becomes(st) ==
    /\ dcf_assumptions' = st.a
    /\ dcf_wacc_components' = st.wc
    /\ dcf_projections' = st.proj
    /\ dcf_valuation' = st.val

DCF_set_historical ==
    \E n \in 0..MaxYears :
        LET years == [i \in 1..n |-> DCF_Years + i - 1]
            revenue == Repeat(Num(1000), n)
            ebitda == Repeat(Num(200), n)
            capex == Repeat(Num(100), n)
            nwc == Repeat(Num(100), n)
        IN  /\ Call("set_historical",
                    [years |-> years, revenue |-> revenue, ebitda |-> ebitda,
                     capex |-> capex, nwc |-> nwc],
                    Return(None), DCF_MaxCalls)
            /\ dcf_historical' = DCF_historical_dict(years, revenue, ebitda, capex, nwc)
            /\ UNCHANGED <<dcf_assumptions, dcf_wacc_components, dcf_projections,
                           dcf_valuation, ddmVars, fcfeVars, rvVars>>

\* set_assumptions with outcome r
DCF_assumed(a, r) ==
    /\ Call("set_assumptions", a, IF Raised(r) THEN r ELSE Return(None), DCF_MaxCalls)
    /\ dcf_assumptions' = IF Raised(r) THEN dcf_assumptions ELSE r.val
    /\ UNCHANGED <<dcf_historical, dcf_wacc_components, dcf_projections,
                   dcf_valuation, ddmVars, fcfeVars, rvVars>>

DCF_set_assumptions_call ==
    \E n \in 0..MaxN, margin \in {None, Rat(3, 10)}, g \in DCF_Growth :
        DCF_assumed([proj_years |-> n,
                     ebitda_margin |-> IF margin = None THEN None ELSE Repeat(margin, n),
                     terminal_growth |-> g],
                    DCF_set_assumptions(dcf_historical, n, None,
                        IF margin = None THEN None ELSE Repeat(margin, n),
                        Rat(1, 5), None, None, g))

\* calc_wacc storing the components wc
DCF_wacc_stored(a, wc) ==
    /\ Call("calc_wacc", a, Return(wc.wacc), DCF_MaxCalls)
    /\ dcf_wacc_components' = wc
    /\ UNCHANGED <<dcf_historical, dcf_assumptions, dcf_projections,
                   dcf_valuation, ddmVars, fcfeVars, rvVars>>

DCF_calc_wacc ==
    \E c \in DCF_Capital :
        DCF_wacc_stored([rf |-> Rat(1, 20), beta |-> c.beta, rm |-> Rat(1, 20),
                         cost_debt |-> Rat(1, 8), d_e |-> c.d_e, tax_rate |-> None],
                        calc_wacc(dcf_assumptions, Rat(1, 20), c.beta, Rat(1, 20),
                                  Rat(1, 8), c.d_e, None))

\* project with outcome r
DCF_projected(r) ==
    /\ Call("project", <<>>, r, DCF_MaxCalls)
    /\ dcf_projections' = IF Raised(r) THEN dcf_projections ELSE r.val
    /\ UNCHANGED <<dcf_historical, dcf_assumptions, dcf_wacc_components,
                   dcf_valuation, ddmVars, fcfeVars, rvVars>>

DCF_project == DCF_projected(project(dcf_historical, dcf_assumptions))

\* calc_value with outcome c.ret and fields c.st
DCF_value_called(c) ==
    /\ Call("calc_value", <<>>, c.ret, DCF_MaxCalls)
    /\ DCF_becomes(c.st)
    /\ UNCHANGED <<dcf_historical, ddmVars, fcfeVars, rvVars>>

DCF_calc_value == DCF_value_called(calc_value(dcf_historical, DCF_fields))

\* the inline valuation of run_all_valuations.main on a projected series
FCFF_inline ==
    \E n \in 1..MaxN, f1 \in {Num(78), Num(-22)}, wacc \in DCF_Growth, g \in DCF_Growth :
        /\ Call("inline_fcff",
                [fcf_proj |-> [i \in 1..n |-> IF i = 1 THEN f1 ELSE Num(88)],
                 wacc |-> wacc, g_terminal |-> g],
                Return(FCFF_inline_ev([i \in 1..n |-> IF i = 1 THEN f1 ELSE Num(88)],
                                      wacc, g)),
                DCF_MaxCalls)
        /\ UNCHANGED <<dcfVars, ddmVars, fcfeVars, rvVars>>

NextDCF ==
    \/ DCF_set_historical
    \/ DCF_set_assumptions_call
    \/ DCF_calc_wacc
    \/ DCF_project
    \/ DCF_calc_value

SpecDCF == Init /\ [][NextDCF]_vars

\* the inline valuation alone
NextFCFF == FCFF_inline

SpecFCFF == Init /\ [][NextFCFF]_vars

\* C5: whenever WACC <= terminal growth, the enterprise value returned by
\* calc_value, and the one the inline FCFF valuation computes, is zero,
\* whatever the projected cash flows
C5_ZeroValueWhenWaccNotAboveGrowth ==
    /\ (op = "calc_value" /\ ret.kind = "return"
        /\ LeqQ(dcf_wacc_components.wacc, dcf_assumptions.terminal_growth))
          => ret.val = Zero
    /\ (op = "inline_fcff" /\ LeqQ(args.wacc, args.g_terminal))
          => ret.val = Zero


----------------------------------------------------------------------------
(* run_all of DDMModel and RelativeValuation, and the aggregate table of   *)
(* scripts/run_all_valuations.py.                                          *)

\* `"target_price" in r and r["target_price"] > 0`
RunAll_priced(r) == "target_price" \in DOMAIN r /\ RGt(r["target_price"], Zero)

\* every result with a target price counted, whatever its sign
RunAll_prices_any_sign(rs) ==
    LET idx == {i \in 1..Len(rs) : "target_price" \in DOMAIN rs[i]}
        nth[k \in 0..Len(rs)] ==
            IF k = 0 THEN <<>>
            ELSE IF k \in idx THEN Append(nth[k - 1], rs[k]["target_price"])
                 ELSE nth[k - 1]
    IN  nth[Len(rs)]

\* the loop collecting `prices` from the results rs, in order
RunAll_prices(rs) ==
    LET nth[k \in 0..Len(rs)] ==
            IF k = 0 THEN <<>>
            ELSE IF RunAll_priced(rs[k]) THEN Append(nth[k - 1], rs[k]["target_price"])
                 ELSE nth[k - 1]
    IN  nth[Len(rs)]

\* min(prices) and max(prices) of a non-empty list
RECURSIVE RMinOf(_)
RMinOf(s) == IF Len(s) = 1 THEN s[1] ELSE RMin(RMinOf(SubSeq(s, 1, Len(s) - 1)), Last(s))
RECURSIVE RMaxOf(_)
RMaxOf(s) == IF Len(s) = 1 THEN s[1] ELSE RMax(RMaxOf(SubSeq(s, 1, Len(s) - 1)), Last(s))

\* the summary: the method results, and the fair values `if prices`
RunAll_summary(methods, prices) ==
    IF prices = <<>> THEN methods
    ELSE methods @@ [fair_value_low |-> RMinOf(prices),
                     fair_value_high |-> RMaxOf(prices),
                     fair_value_avg |-> RDiv(RSum(prices), Num(Len(prices)))]

\* DDMModel.run_all from the outcomes of its three calls
DDM_run_all_of(gordon, two_stage, hm) ==
    IF Raised(gordon) THEN gordon
    ELSE IF Raised(two_stage) THEN two_stage
    ELSE IF Raised(hm) THEN hm
    ELSE Return(RunAll_summary(
                  [gordon |-> gordon.val, two_stage |-> two_stage.val,
                   h_model |-> hm.val],
                  RunAll_prices(<<gordon.val, two_stage.val, hm.val>>)))

\* DDMModel.run_all(d0, g_high, g_stable, ke): the variants run with their
\* default horizons
DDM_run_all(h, kc, d0, g_high, g_stable, ke) ==
    DDM_run_all_of(gordon_growth(h, kc, d0, g_stable, ke),
                   two_stage_ddm(h, kc, d0, g_high, g_stable, 5, ke),
                   h_model(h, kc, d0, g_high, g_stable, 5, ke))

\* `self.results = summary; return summary`
RV_summary_stored(summary) == [ret |-> Return(summary), results |-> summary]

\* RelativeValuation.run_all from the outcomes of its three calls
RV_run_all_of(pe, pb, ev) ==
    IF Raised(pe.ret) THEN pe
    ELSE IF Raised(pb.ret) THEN pb
    ELSE IF Raised(ev.ret) THEN ev
    ELSE RV_summary_stored(
             RunAll_summary(
                 [pe |-> pe.ret.val, pb |-> pb.ret.val, ev_ebitda |-> ev.ret.val],
                 RunAll_prices(<<pe.ret.val, pb.ret.val, ev.ret.val>>)))

\* RelativeValuation.run_all(target_pe, target_pb, target_ev_ebitda)
RV_run_all(fin, peers, results, target_pe, target_pb, target_ev_ebitda) ==
    LET pe == valuation_pe(fin, peers, results, target_pe, FALSE)
        pb == valuation_pb(fin, peers, pe.results, target_pb, FALSE)
    IN  RV_run_all_of(pe, pb,
                      valuation_ev_ebitda(fin, peers, pb.results,
                                          target_ev_ebitda, FALSE))

\* the methods of the aggregate table, in the order of `all_prices`
Main_methods ==
    <<"FCFF (DCF)", "FCFE", "P/E", "P/B", "EV/EBITDA",
      "DDM (Gordon)", "DDM (Two-Stage)", "DDM (H-Model)">>

\* `price = result["target_price"]` if "target_price" in result, else 0
Main_price_of(result) ==
    IF "target_price" \in DOMAIN result THEN result["target_price"] ELSE Zero

\* the rows printed: the price when it is positive, None for 'N/A'
Main_rows(all_prices) ==
    [i \in 1..Len(all_prices) |->
        [method |-> Main_methods[i],
         price |-> IF RGt(all_prices[i], Zero) THEN all_prices[i] ELSE None]]

\* `valid_prices = [p for p in all_prices.values() if p > 0]`
Main_valid_prices(all_prices) ==
    RunAll_prices([i \in 1..Len(all_prices) |-> [target_price |-> all_prices[i]]])

\* the FAIR VALUE RANGE block, None when it is not printed
Main_range(valid_prices) ==
    IF valid_prices = <<>> THEN None
    ELSE [low |-> RMinOf(valid_prices),
          avg |-> RDiv(RSum(valid_prices), Num(Len(valid_prices))),
          high |-> RMaxOf(valid_prices)]

\* the aggregate table of main from the prices of the eight methods
Main_table(all_prices) ==
    [rows |-> Main_rows(all_prices), range |-> Main_range(Main_valid_prices(all_prices))]


\* run_all on a fresh DDMModel: no dividend or a small one, growth that
\* collapses or holds, and Ke at or above the stable growth rate
DDM_run_all_call ==
    \E d0 \in {None, Num(10)}, g_high \in {Rat(-1, 2), Rat(1, 10)},
       g_stable \in {Rat(1, 10), Rat(1, 5)}, ke \in {Rat(1, 10), Rat(1, 5)} :
        LET r == DDM_run_all(ddm_historical, ddm_ke_components, d0, g_high, g_stable, ke)
        IN  /\ Call("run_all",
                    [d0 |-> d0, g_high |-> g_high, g_stable |-> g_stable, ke |-> ke],
                    r, 1)
            /\ ddm_results' =
                  IF Raised(r)
                  THEN DDM_store(ddm_results, "gordon",
                                 gordon_growth(ddm_historical, ddm_ke_components,
                                               d0, g_stable, ke))
                  ELSE r.val
            /\ UNCHANGED <<ddm_historical, ddm_ke_components, fcfeVars, rvVars, dcfVars>>

RV_run_all_call ==
    \E target_pe \in {None, Num(10)}, target_pb \in {None, Num(10)},
       target_ev_ebitda \in {None, Num(10)} :
        RV_call("run_all",
                [target_pe |-> target_pe, target_pb |-> target_pb,
                 target_ev_ebitda |-> target_ev_ebitda],
                RV_run_all(rv_financials, rv_peers, rv_results,
                           target_pe, target_pb, target_ev_ebitda))

\* what a method of main hands to the table: an error result, or a result
\* with a negative or a positive target price
Main_Results ==
    {[method |-> "m", error |-> "e"], [target_price |-> Num(-5000)],
     [target_price |-> Num(10000)], [target_price |-> Num(30000)]}

\* the aggregate table of main, from the two inline prices and the results
\* of the six model methods
Main_table_call ==
    /\ calls = 0
    /\ \E price_fcff \in {Num(-5000), Num(20000)}, price_fcfe \in {Zero, Num(20000)},
          results \in [3..8 -> Main_Results] :
           /\ Call("main",
                   [price_fcff |-> price_fcff, price_fcfe |-> price_fcfe,
                    results |-> results],
                   Return(Main_table(<<price_fcff, price_fcfe>>
                                       \o [i \in 1..6 |-> Main_price_of(results[i + 2])])),
                   1)
           /\ UNCHANGED <<ddmVars, fcfeVars, rvVars, dcfVars>>

\* the calls so far were made on the RelativeValuation object
RunAll_on_rv == op \in {"__init__", "set_financials", "set_peer_multiples"}

RunAll_set_financials == RunAll_on_rv /\ RV_set_financials

RunAll_set_peer_multiples ==
    RunAll_on_rv /\ RV_set_peer_multiples(RV_PeerLists, RV_MaxCalls)

RunAll_rv_run_all == RunAll_on_rv /\ RV_run_all_call

\* one RelativeValuation object, or one DDMModel, or one table
NextRunAll ==
    \/ RunAll_set_financials
    \/ RunAll_set_peer_multiples
    \/ RunAll_rv_run_all
    \/ DDM_run_all_call
    \/ Main_table_call

SpecRunAll == Init /\ [][NextRunAll]_vars


\* the target prices of a list of results, None where a result has none
PricesOf(rs) ==
    [i \in 1..Len(rs) |->
        IF "target_price" \in DOMAIN rs[i] THEN rs[i]["target_price"] ELSE None]

\* the positions of the strictly positive prices
Positive(ps) == {i \in 1..Len(ps) : ps[i] # None /\ LessQ(Zero, ps[i])}

\* the sum of the prices at the positions I up to k
RECURSIVE SumAt(_, _, _)
SumAt(ps, I, k) ==
    IF k = 0 THEN Zero
    ELSE RAdd(SumAt(ps, I, k - 1), IF k \in I THEN ps[k] ELSE Zero)

\* low, avg and high are the least, the mean and the greatest of the strictly
\* positive prices
IsFairRange(ps, low, avg, high) ==
    LET I == Positive(ps)
    IN  /\ \E i \in I : low = ps[i]
        /\ \A i \in I : LeqQ(low, ps[i])
        /\ \E i \in I : high = ps[i]
        /\ \A i \in I : LeqQ(ps[i], high)
        /\ RMul(avg, Num(Cardinality(I))) = SumAt(ps, I, Len(ps))

FairKeys == {"fair_value_low", "fair_value_high", "fair_value_avg"}

\* s reports every method of keys, each as its own error or priced result,
\* and carries the fair values exactly when some price is strictly positive
IsSummary(s, keys, tags) ==
    LET rs == [i \in 1..Len(keys) |-> s[keys[i]]]
        ps == PricesOf(rs)
        reported == {keys[i] : i \in 1..Len(keys)}
    IN  /\ reported \subseteq DOMAIN s
        /\ \A i \in 1..Len(keys) :
              /\ rs[i].method = tags[i]
              /\ ("error" \in DOMAIN rs[i]) # ("target_price" \in DOMAIN rs[i])
        /\ IF Positive(ps) = {} THEN DOMAIN s = reported
           ELSE /\ DOMAIN s = reported \cup FairKeys
                /\ IsFairRange(ps, s["fair_value_low"], s["fair_value_avg"],
                               s["fair_value_high"])

\* the prices main hands to its table, None for a method without one
Main_given ==
    <<args.price_fcff, args.price_fcfe>>
        \o PricesOf([i \in 1..6 |-> args.results[i + 2]])

\* t lists all eight methods, with the price when it is strictly positive and
\* N/A otherwise, and the range over the strictly positive prices
IsTable(t, ps) ==
    /\ Len(t.rows) = Len(Main_methods)
    /\ \A i \in 1..Len(t.rows) :
          /\ t.rows[i].method = Main_methods[i]
          /\ t.rows[i].price = IF i \in Positive(ps) THEN ps[i] ELSE None
    /\ IF Positive(ps) = {} THEN t.range = None
       ELSE IsFairRange(ps, t.range.low, t.range.avg, t.range.high)

RunAll_ddm == op = "run_all" /\ "d0" \in DOMAIN args
RunAll_rv == op = "run_all" /\ "target_pe" \in DOMAIN args /\ rv_financials # EmptyDict

----------------------------------------------------------------------------
(* The per-year ratios of the historical inputs.                           *)

\* the years main reads: `range(5)`
MainYears == 5

\* `sum([xs[i] / revenue[i] for i in range(5)]) / 5`
Main_avg_ratio(xs, revenue) ==
    IF \E i \in 1..MainYears : revenue[i] = Zero THEN Raise("ZeroDivisionError")
    ELSE Return(RDiv(RSum([i \in 1..MainYears |-> RDiv(xs[i], revenue[i])]),
                     Num(MainYears)))

\* abs(x)
RAbs(x) == IF x[1] < 0 THEN RNeg(x) ELSE x

\* the three averages main computes from the historical rows, in order
Main_averages_of(margin, capex_pct, nwc_pct) ==
    IF Raised(margin) THEN margin
    ELSE IF Raised(capex_pct) THEN capex_pct
    ELSE IF Raised(nwc_pct) THEN nwc_pct
    ELSE Return([avg_ebitda_margin |-> margin.val,
                 avg_capex_pct |-> capex_pct.val,
                 avg_nwc_pct |-> nwc_pct.val])

Main_averages(revenue, ebitda, capex, nwc) ==
    Main_averages_of(Main_avg_ratio(ebitda, revenue),
                     Main_avg_ratio(capex, revenue),
                     Main_avg_ratio([i \in 1..MainYears |-> RAbs(nwc[i])], revenue))

\* set_historical_dividends on years without profit, without dividend and
\* with no or a negative share count
Ratio_set_historical_dividends ==
    /\ calls = 0
    /\ \E n \in 0..MaxYears, shares \in {Num(-100), Zero, Num(100)} :
       \E dividends_paid \in [1..n -> {Zero, Num(100), Num(120)}],
          net_income \in [1..n -> {Zero, Num(200)}] :
           LET years == [i \in 1..n |-> DDM_Years + i - 1]
           IN  /\ Call("set_historical_dividends",
                       [years |-> years, dividends_paid |-> dividends_paid,
                        net_income |-> net_income, shares_outstanding |-> shares],
                       Return(None), 1)
               /\ ddm_historical' =
                     DDM_historical_dict(years, dividends_paid, net_income, shares)
               /\ UNCHANGED <<ddm_ke_components, ddm_results, fcfeVars, rvVars, dcfVars>>

\* DCFModel.set_historical on years without revenue
Ratio_set_historical ==
    /\ calls = 0
    /\ \E n \in 0..MaxYears :
       \E revenue \in [1..n -> {Zero, Num(1000)}], nwc \in [1..n -> {Num(-100), Num(100)}] :
           LET years == [i \in 1..n |-> DCF_Years + i - 1]
               ebitda == Repeat(Num(200), n)
               capex == Repeat(Num(100), n)
           IN  /\ Call("set_historical",
                       [years |-> years, revenue |-> revenue, ebitda |-> ebitda,
                        capex |-> capex, nwc |-> nwc],
                       Return(None), 1)
               /\ dcf_historical' =
                     DCF_historical_dict(years, revenue, ebitda, capex, nwc)
               /\ UNCHANGED <<dcf_assumptions, dcf_wacc_components, dcf_projections,
                              dcf_valuation, ddmVars, fcfeVars, rvVars>>

\* the historical averages of main on rows with and without revenue
Main_averages_call ==
    /\ calls = 0
    /\ \E revenue \in [1..MainYears -> {Zero, Num(1000)}] :
           LET ebitda == Repeat(Num(200), MainYears)
               capex == Repeat(Num(100), MainYears)
               nwc == Repeat(Num(-50), MainYears)
           IN  /\ Call("main",
                       [revenue |-> revenue, ebitda |-> ebitda, capex |-> capex,
                        nwc |-> nwc],
                       Main_averages(revenue, ebitda, capex, nwc), 1)
               /\ UNCHANGED <<ddmVars, fcfeVars, rvVars, dcfVars>>

NextRatios ==
    \/ Ratio_set_historical_dividends
    \/ Ratio_set_historical
    \/ Main_averages_call

SpecRatios == Init /\ [][NextRatios]_vars

\* x / y, or zero when y is zero
GuardedRatio(x, y) == IF y = Zero THEN Zero ELSE RDiv(x, y)

\* the ratios set_historical_dividends stores: payout 0 for a year without
\* net income, DPS 0 without a positive share count, growth 0 after a year
\* whose DPS is not positive
DividendRatiosGuarded ==
    op = "set_historical_dividends" =>
        LET h == ddm_historical
            n == Len(args.years)
        IN  /\ Len(h.dps) = n /\ Len(h.payout_ratio) = n
            /\ \A i \in 1..n :
                  /\ h.payout_ratio[i] =
                        GuardedRatio(args.dividends_paid[i], args.net_income[i])
                  /\ h.dps[i] =
                        IF LeqQ(args.shares_outstanding, Zero) THEN Zero
                        ELSE RMul(RDiv(args.dividends_paid[i], args.shares_outstanding),
                                  Num(1000))
            /\ \A i \in 1..(n - 1) :
                  h.div_growth[i] =
                      IF LeqQ(h.dps[i], Zero) THEN Zero
                      ELSE RSub(RDiv(h.dps[i + 1], h.dps[i]), One)

\* the ratios DCFModel.set_historical stores: 0 for a year without revenue
RevenueRatiosGuarded ==
    op = "set_historical" =>
        LET h == dcf_historical
        IN  \A i \in 1..Len(args.years) :
              /\ h.ebitda_margin[i] = GuardedRatio(args.ebitda[i], args.revenue[i])
              /\ h.capex_percent[i] = GuardedRatio(args.capex[i], args.revenue[i])
              /\ h.nwc_percent[i] = GuardedRatio(args.nwc[i], args.revenue[i])

\* the mean over the years main reads of x / revenue, zero where revenue is
GuardedAverage(xs, revenue) ==
    RDiv(RSum([i \in 1..MainYears |-> GuardedRatio(xs[i], revenue[i])]), Num(MainYears))

\* C17: every derived per-year ratio substitutes zero for a division by zero
\* (payout for net income 0, DPS for shares <= 0, dividend growth after a DPS
\* that is not positive, margin, CapEx and NWC percentages for revenue 0), in the
\* model classes and in the historical averages of main, so that no
\* historical input containing zeros makes a ratio computation fail.
C17_RatiosGuarded ==
    /\ ret.kind = "return"
    /\ DividendRatiosGuarded
    /\ RevenueRatiosGuarded
    /\ op = "main" =>
          /\ ret.val.avg_ebitda_margin = GuardedAverage(args.ebitda, args.revenue)
          /\ ret.val.avg_capex_pct = GuardedAverage(args.capex, args.revenue)
          /\ ret.val.avg_nwc_pct =
                GuardedAverage([i \in 1..MainYears |-> RAbs(args.nwc[i])], args.revenue)

\* the model classes alone keep C17
C17_ModelClassesGuarded ==
    /\ op \in {"set_historical_dividends", "set_historical"} => ret.kind = "return"
    /\ DividendRatiosGuarded
    /\ RevenueRatiosGuarded

----------------------------------------------------------------------------
(* The lengths of the stored per-year arrays.                              *)

\* `xs[i]` for some year i of 1..n is past the end of the list xs
Len_short(xs, n) == Len(xs) < n

\* set_historical_dividends(years, dividends_paid, net_income, shares): the
\* historical dict, or the IndexError of a list too short for the years.
\* dividends_paid[i] is read for dps when shares > 0 and for the payout when
\* net_income[i] != 0; net_income[i] is read for every year.
DDM_set_historical_dividends_outcome(years, dividends_paid, net_income, shares) ==
    LET n == Len(years)
    IN  IF \/ Len_short(net_income, n)
           \/ \E i \in 1..n : /\ i > Len(dividends_paid)
                               /\ (RGt(shares, Zero) \/ net_income[i] # Zero)
        THEN Raise("IndexError")
        ELSE Return(DDM_historical_dict(years, dividends_paid, net_income, shares))

\* set_historical(years, net_income, depreciation, capex, nwc, net_borrowing,
\* dividends): the historical dict, or the IndexError of a list too short.
\* nwc is read from the second year on, dividends[i] when net_income[i] != 0.
FCFE_set_historical_outcome(years, net_income, depreciation, capex, nwc, net_borrowing_, dividends_) ==
    LET n == Len(years)
        net_borrowing == IF net_borrowing_ = None THEN Repeat(Zero, n)
                         ELSE net_borrowing_
        dividends == IF dividends_ = None THEN Repeat(Zero, n) ELSE dividends_
    IN  IF \/ Len_short(net_income, n)
           \/ Len_short(depreciation, n)
           \/ Len_short(capex, n)
           \/ Len_short(net_borrowing, n)
           \/ (n >= 2 /\ Len_short(nwc, n))
           \/ \E i \in 1..n : i > Len(dividends) /\ net_income[i] # Zero
        THEN Raise("IndexError")
        ELSE Return(FCFE_historical_dict(years, net_income, depreciation, capex,
                                         nwc, net_borrowing_, dividends_))

Len_set_historical_dividends ==
    /\ calls = 0
    /\ \E n \in 0..MaxYears :
       \E dividends_paid \in SeqsUpTo({Num(100)}, MaxYears),
          net_income \in SeqsUpTo({Zero, Num(200)}, MaxYears),
          shares \in {Zero, Num(100)} :
        LET years == [i \in 1..n |-> DDM_Years + i - 1]
            r == DDM_set_historical_dividends_outcome(years, dividends_paid,
                                                      net_income, shares)
        IN  /\ Call("set_historical_dividends",
                    [years |-> years, dividends_paid |-> dividends_paid,
                     net_income |-> net_income, shares_outstanding |-> shares],
                    IF Raised(r) THEN r ELSE Return(None), 1)
            /\ ddm_historical' = IF Raised(r) THEN ddm_historical ELSE r.val
            /\ UNCHANGED <<ddm_ke_components, ddm_results, fcfeVars, rvVars, dcfVars>>

Len_set_historical ==
    /\ calls = 0
    /\ \E n \in 0..MaxYears :
       \E net_income \in SeqsUpTo({Zero, Num(200)}, MaxYears),
          depreciation \in SeqsUpTo({Num(50)}, MaxYears),
          nwc \in SeqsUpTo({Num(100)}, MaxYears),
          net_borrowing \in {None} \cup SeqsUpTo({Num(10)}, MaxYears),
          dividends \in {None} \cup SeqsUpTo({Num(100)}, MaxYears) :
        LET years == [i \in 1..n |-> FCFE_Years + i - 1]
            capex == [i \in 1..n |-> Num(70)]
            r == FCFE_set_historical_outcome(years, net_income, depreciation,
                                             capex, nwc, net_borrowing, dividends)
        IN  /\ Call("set_historical",
                    [years |-> years, net_income |-> net_income,
                     depreciation |-> depreciation, capex |-> capex, nwc |-> nwc,
                     net_borrowing |-> net_borrowing, dividends |-> dividends],
                    IF Raised(r) THEN r ELSE Return(None), 1)
            /\ fcfe_historical' = IF Raised(r) THEN fcfe_historical ELSE r.val
            /\ UNCHANGED <<fcfe_assumptions, fcfe_ke_components, fcfe_projections,
                           fcfe_valuation, ddmVars, rvVars, dcfVars>>

NextLengths ==
    \/ Len_set_historical_dividends
    \/ Len_set_historical

SpecLengths == Init /\ [][NextLengths]_vars

\* the per-year arrays a model stores, inputs and derived
Len_ddm_inputs == {"dividends_paid", "net_income"}
Len_ddm_derived == {"dps", "payout_ratio"}
Len_fcfe_inputs ==
    {"net_income", "depreciation", "capex", "nwc", "net_borrowing", "dividends"}
Len_fcfe_derived == {"fcfe", "payout_ratio"}

\* the stored arrays named in keys all have the length of the stored years
Len_all(h, keys) == \A k \in keys : Len(h[k]) = Len(h["years"])

\* len(years) - 1, 0 for an empty or single-year history
Len_growth(h) == IF Len(h["years"]) > 0 THEN Len(h["years"]) - 1 ELSE 0

Len_returned(name) == op = name /\ ret.kind = "return"

\* C23: after DDMModel.set_historical_dividends or FCFEModel.set_historical
\* returns, every stored per-year array (the inputs and the derived dps,
\* payout_ratio, fcfe) has length len(years), and the dividend-growth series
\* has length len(years) - 1 (0 for an empty or single-year history).
C23_ArrayLengths ==
    /\ Len_returned("set_historical_dividends") =>
          /\ Len_all(ddm_historical, Len_ddm_inputs \cup Len_ddm_derived)
          /\ Len(ddm_historical["div_growth"]) = Len_growth(ddm_historical)
    /\ Len_returned("set_historical") =>
          Len_all(fcfe_historical, Len_fcfe_inputs \cup Len_fcfe_derived)

\* the derived arrays alone do have the length of the years
C23_DerivedLengths ==
    /\ Len_returned("set_historical_dividends") =>
          /\ Len_all(ddm_historical, Len_ddm_derived)
          /\ Len(ddm_historical["div_growth"]) = Len_growth(ddm_historical)
    /\ Len_returned("set_historical") =>
          Len_all(fcfe_historical, Len_fcfe_derived)

----------------------------------------------------------------------------
(* parse_num of the scripts (run_all_valuations.py, run_dcf.py).           *)
(* A text is the list of its characters; a float is a mantissa and a power *)
(* of ten, or one of nan, inf, -inf.                                       *)

\* longest text handed to parse_num
MaxText == 3

\* the characters of the explored texts: digits, the characters parse_num
\* removes, and those float() gives a meaning to
Text_Chars == {"0", "1", ",", "\"", " ", "-", ".", "e", "_", "n", "a", "i", "f"}

Text_Digits == {"0", "1", "2", "3", "4", "5", "6", "7", "8", "9"}
Text_digit_value(c) ==
    CASE c = "0" -> 0 [] c = "1" -> 1 [] c = "2" -> 2 [] c = "3" -> 3
      [] c = "4" -> 4 [] c = "5" -> 5 [] c = "6" -> 6 [] c = "7" -> 7
      [] c = "8" -> 8 [] c = "9" -> 9

Text_of(t) == [kind |-> "str", text |-> t]
Number_of(x) == [kind |-> "num", val |-> x]
Parse_None == [kind |-> "None"]

Float(m, e) == [kind |-> "float", mant |-> m, exp10 |-> e]
Float_nan == [kind |-> "nan"]
Float_inf(negative) == [kind |-> "inf", negative |-> negative]

\* s.replace(c, '')
Text_replace(s, c) == SelectSeq(s, LAMBDA x : x # c)

\* s.strip()
RECURSIVE Text_lstrip(_)
Text_lstrip(s) == IF Len(s) > 0 /\ s[1] = " " THEN Text_lstrip(Tail(s)) ELSE s
RECURSIVE Text_rstrip(_)
Text_rstrip(s) ==
    IF Len(s) > 0 /\ s[Len(s)] = " " THEN Text_rstrip(SubSeq(s, 1, Len(s) - 1))
    ELSE s
Text_strip(s) == Text_rstrip(Text_lstrip(s))

\* s.find(c), counted from 1; 0 when c does not occur
Text_find(s, cs) ==
    IF \E i \in 1..Len(s) : s[i] \in cs
    THEN CHOOSE i \in 1..Len(s) : s[i] \in cs /\ \A j \in 1..(i - 1) : s[j] \notin cs
    ELSE 0

\* digits, single underscores allowed between two of them
Text_digitpart(s) ==
    /\ Len(s) > 0
    /\ \A i \in 1..Len(s) : s[i] \in Text_Digits \cup {"_"}
    /\ s[1] # "_"
    /\ s[Len(s)] # "_"
    /\ \A i \in 1..(Len(s) - 1) : ~(s[i] = "_" /\ s[i + 1] = "_")

\* the value of the digits of s
RECURSIVE Text_int(_)
Text_int(s) ==
    IF Len(s) = 0 THEN 0
    ELSE LET front == SubSeq(s, 1, Len(s) - 1)
         IN  IF s[Len(s)] = "_" THEN Text_int(front)
             ELSE 10 * Text_int(front) + Text_digit_value(s[Len(s)])

\* the number of digits of s
Text_digits(s) == Len(Text_replace(s, "_"))

RECURSIVE Pow10(_)
Pow10(k) == IF k <= 0 THEN 1 ELSE 10 * Pow10(k - 1)

\* float(text): the value, or ValueError
float_of_text(t) ==
    LET s == Text_strip(t)
        signed == Len(s) > 0 /\ s[1] \in {"-", "+"}
        negative == signed /\ s[1] = "-"
        u == IF signed THEN Tail(s) ELSE s
        ePos == Text_find(u, {"e", "E"})
        mant == IF ePos = 0 THEN u ELSE SubSeq(u, 1, ePos - 1)
        expo == IF ePos = 0 THEN <<>> ELSE SubSeq(u, ePos + 1, Len(u))
        expSigned == Len(expo) > 0 /\ expo[1] \in {"-", "+"}
        expNegative == expSigned /\ expo[1] = "-"
        expDigits == IF expSigned THEN Tail(expo) ELSE expo
        pPos == Text_find(mant, {"."})
        ipart == IF pPos = 0 THEN mant ELSE SubSeq(mant, 1, pPos - 1)
        fpart == IF pPos = 0 THEN <<>> ELSE SubSeq(mant, pPos + 1, Len(mant))
        mantOk == IF pPos = 0 THEN Text_digitpart(mant)
                  ELSE /\ ipart = <<>> \/ Text_digitpart(ipart)
                       /\ fpart = <<>> \/ Text_digitpart(fpart)
                       /\ ipart # <<>> \/ fpart # <<>>
        expOk == ePos = 0 \/ Text_digitpart(expDigits)
        magnitude == Rat(Text_int(ipart) * Pow10(Text_digits(fpart)) + Text_int(fpart),
                         Pow10(Text_digits(fpart)))
        exponent == IF expNegative THEN 0 - Text_int(expDigits) ELSE Text_int(expDigits)
    IN  IF u = <<"n", "a", "n">> THEN Return(Float_nan)
        ELSE IF u \in {<<"i", "n", "f">>, <<"i", "n", "f", "i", "n", "i", "t", "y">>}
        THEN Return(Float_inf(negative))
        ELSE IF mantOk /\ expOk
        THEN Return(Float(IF negative THEN RNeg(magnitude) ELSE magnitude, exponent))
        ELSE Raise("ValueError")

\* `not s` for None, a text or a number
Parse_falsy(s) ==
    \/ s.kind = "None"
    \/ s.kind = "str" /\ s.text = <<>>
    \/ s.kind = "num" /\ s.val = Zero

\* the text float() is given: commas and double quotes removed, then stripped
Parse_cleaned(t) == Text_strip(Text_replace(Text_replace(t, ","), "\""))

\* parse_num(s) for None, a text or a number
parse_num(s) ==
    IF Parse_falsy(s) THEN Return(Float(Zero, 0))
    ELSE IF s.kind = "num" THEN Return(Float(s.val, 0))
    ELSE LET r == float_of_text(Parse_cleaned(s.text))
         IN  IF Raised(r) THEN Return(Float(Zero, 0)) ELSE r

Parse_Texts == SeqsUpTo(Text_Chars, MaxText)
Parse_Numbers == {Zero, Num(5), Rat(-3, 2)}

Parse_text ==
    /\ calls = 0
    /\ \E t \in Parse_Texts :
        /\ Call("parse_num", [s |-> Text_of(t)], parse_num(Text_of(t)), 1)
        /\ UNCHANGED <<ddmVars, fcfeVars, rvVars, dcfVars>>

Parse_other ==
    /\ calls = 0
    /\ \E s \in {Parse_None} \cup {Number_of(x) : x \in Parse_Numbers} :
        /\ Call("parse_num", [s |-> s], parse_num(s), 1)
        /\ UNCHANGED <<ddmVars, fcfeVars, rvVars, dcfVars>>

NextParse ==
    \/ Parse_text
    \/ Parse_other

SpecParse == Init /\ [][NextParse]_vars

\* the result is the float 0.0
Parse_zero == ret = Return(Float(Zero, 0))

\* a character no number is written with: no digit, sign, point, exponent
\* mark or digit separator, nor one of those parse_num removes
Parse_foreign(c) ==
    c \notin Text_Digits \cup {"-", "+", ".", "e", "E", "_", ",", "\"", " "}

\* the text holds a character no number is written with
Parse_not_a_number(t) == \E i \in 1..Len(t) : Parse_foreign(t[i])

\* the text is digits and thousands commas, possibly quoted
Parse_plain(t) ==
    /\ \E i \in 1..Len(t) : t[i] \in Text_Digits
    /\ \A i \in 1..Len(t) : t[i] \in Text_Digits \cup {",", "\""}

\* C24: parse_num never raises; it returns 0.0 for None, for the empty text
\* and for a text that is not a number once commas, double quotes and the
\* surrounding whitespace are removed; it returns the value of an int or
\* float and of a comma-separated or quoted numeric text.
C24_MalformedToZero ==
    op = "parse_num" =>
        /\ ret.kind = "return"
        /\ args.s.kind = "None" => Parse_zero
        /\ args.s.kind = "num" => ret.val = Float(args.s.val, 0)
        /\ args.s.kind = "str" =>
              /\ args.s.text = <<>> => Parse_zero
              /\ Parse_not_a_number(args.s.text) => Parse_zero
              /\ Parse_plain(args.s.text) =>
                    ret.val = Float(Num(Text_int(Text_replace(Text_replace(
                                        args.s.text, ","), "\""))), 0)

\* the same, the texts nan and inf set aside
C24_ExceptNanAndInf ==
    (/\ op = "parse_num"
     /\ ~(/\ args.s.kind = "str"
          /\ ret.val.kind \in {"nan", "inf"})) => C24_MalformedToZero

----------------------------------------------------------------------------
(* The WACC of a DCFModel whose assumptions change.                        *)

Wacc_TaxRates == {Rat(1, 5), Rat(1, 4)}

\* set_assumptions for one projected year with the tax rate given
Wacc_set_assumptions ==
    /\ calls < DCF_MaxCalls
    /\ \E tax_rate \in Wacc_TaxRates :
        DCF_assumed([proj_years |-> 1, tax_rate |-> tax_rate],
                    DCF_set_assumptions(dcf_historical, 1, None, None, tax_rate,
                                        None, None, Rat(3, 100)))

NextWacc ==
    \/ DCF_set_historical
    \/ Wacc_set_assumptions
    \/ DCF_calc_wacc
    \/ DCF_calc_value

SpecWacc == Init /\ [][NextWacc]_vars

\* we * Ke + wd * Kd * (1 - tax_rate) on the stored components
Wacc_weighted(wc, tax_rate) ==
    RAdd(RMul(wc["we"], wc["ke"]),
         RMul(RMul(wc["wd"], wc["kd"]), RSub(One, tax_rate)))

\* calc_value returned a value on a model with assumptions and a WACC
Wacc_valued ==
    /\ op = "calc_value"
    /\ ret.kind = "return"
    /\ "tax_rate" \in DOMAIN dcf_assumptions
    /\ "wacc" \in DOMAIN dcf_wacc_components

\* the enterprise value at the discount rate w on the stored projection
Wacc_ev_at(w) ==
    LET fcf == dcf_projections["fcf"]
        g == dcf_assumptions["terminal_growth"]
        n == dcf_assumptions["years"]
        pv == RSum([i \in 1..Len(fcf) |-> RDiv(fcf[i], RPow(RAdd(One, w), i))])
    IN  IF LeqQ(w, g) THEN pv
        ELSE RAdd(pv, RDiv(RDiv(RMul(fcf[Len(fcf)], RAdd(One, g)), RSub(w, g)),
                           RPow(RAdd(One, w), n)))

\* C25: after any sequence of set_assumptions and calc_wacc calls (calc_wacc
\* given no tax rate), the WACC calc_value discounts with is we * Ke + wd * Kd
\* * (1 - tax_rate) with the tax rate of the current assumptions.
C25_WaccFollowsAssumptions ==
    Wacc_valued =>
        /\ dcf_wacc_components["wacc"] =
             Wacc_weighted(dcf_wacc_components, dcf_assumptions["tax_rate"])
        /\ ret.val = Wacc_ev_at(Wacc_weighted(dcf_wacc_components,
                                              dcf_assumptions["tax_rate"]))

\* the WACC is the weighted formula at the tax rate of the assumptions in
\* force when calc_wacc was called, with Ke and the weights of its arguments
C25_WaccAtCall ==
    [][op' = "calc_wacc" =>
        /\ dcf_wacc_components'["ke"] = RAdd(args'.rf, RMul(args'.beta, args'.rm))
        /\ dcf_wacc_components'["we"] = RDiv(One, RAdd(One, args'.d_e))
        /\ dcf_wacc_components'["wd"] = RDiv(args'.d_e, RAdd(One, args'.d_e))
        /\ dcf_wacc_components'["kd"] = args'.cost_debt
        /\ ret'.val = dcf_wacc_components'["wacc"]
        /\ dcf_wacc_components'["wacc"] =
             Wacc_weighted(dcf_wacc_components',
                           IF "tax_rate" \in DOMAIN dcf_assumptions
                           THEN dcf_assumptions["tax_rate"] ELSE Rat(1, 5))]_vars

----------------------------------------------------------------------------
(* Valuations of an FCFEModel whose inputs change after a projection.      *)

Stale_set_historical ==
    FCFE_set_historical({Num(200), Num(300)}, {Num(50)}, {Num(100)}, {None},
                        FCFE_MaxCalls + 1)

Stale_set_assumptions ==
    /\ calls < FCFE_MaxCalls + 1
    /\ \E n \in 1..MaxN :
        LET r == FCFE_set_assumptions(fcfe_historical, n, Rat(1, 20), Num(2000))
        IN  /\ Call("set_assumptions",
                    [projection_years |-> n, terminal_growth |-> Rat(1, 20),
                     base_revenue |-> Num(2000)],
                    IF Raised(r) THEN r ELSE Return(None), FCFE_MaxCalls + 1)
            /\ fcfe_assumptions' = IF Raised(r) THEN fcfe_assumptions ELSE r.val
            /\ UNCHANGED <<fcfe_historical, fcfe_ke_components, fcfe_projections,
                           fcfe_valuation, ddmVars, rvVars, dcfVars>>

Stale_calculate_ke ==
    /\ calls < FCFE_MaxCalls + 1
    /\ LET kc == KeComponents(Rat(1, 20), One, Rat(3, 20))
       IN  /\ Call("calculate_ke",
                   [risk_free_rate |-> Rat(1, 20), beta |-> One,
                    market_premium |-> Rat(3, 20)],
                   Return(kc.ke), FCFE_MaxCalls + 1)
           /\ fcfe_ke_components' = kc
           /\ UNCHANGED <<fcfe_historical, fcfe_assumptions, fcfe_projections,
                          fcfe_valuation, ddmVars, rvVars, dcfVars>>

Stale_project_fcfe ==
    /\ calls < FCFE_MaxCalls + 1
    /\ LET r == FCFE_project_fcfe(fcfe_historical, fcfe_assumptions)
       IN  /\ Call("project_fcfe", <<>>, r, FCFE_MaxCalls + 1)
           /\ fcfe_projections' = IF Raised(r) THEN fcfe_projections ELSE r.val
           /\ UNCHANGED <<fcfe_historical, fcfe_assumptions, fcfe_ke_components,
                          fcfe_valuation, ddmVars, rvVars, dcfVars>>

Stale_calculate_equity_value ==
    /\ calls < FCFE_MaxCalls + 1
    /\ LET c == FCFE_calculate_equity_value(fcfe_historical, FCFE_fields, Num(100))
       IN  /\ Call("calculate_equity_value", [shares_outstanding |-> Num(100)],
                   c.ret, FCFE_MaxCalls + 1)
           /\ FCFE_becomes(c.st)
           /\ UNCHANGED <<fcfe_historical, ddmVars, rvVars, dcfVars>>

NextStale ==
    \/ Stale_set_historical
    \/ Stale_set_assumptions
    \/ Stale_calculate_ke
    \/ Stale_project_fcfe
    \/ Stale_calculate_equity_value

SpecStale == Init /\ [][NextStale]_vars

\* the outcome of calculate_equity_value on a fresh projection of the
\* historical data h and the assumptions a
Stale_fresh(h, kc, a, shares) ==
    FCFE_calculate_equity_value(h, FCFE_state(kc, a, EmptyDict, EmptyDict), shares).ret

\* the stored projection is the projection of the current data and assumptions
Stale_projection_current ==
    Return(fcfe_projections) = FCFE_project_fcfe(fcfe_historical, fcfe_assumptions)

Stale_valued == op = "calculate_equity_value" /\ ret.kind = "return"

\* C27: after any sequence of set_historical, set_assumptions, calculate_ke,
\* project_fcfe and calculate_equity_value, the valuation returned equals the
\* one from a fresh projection of the current historical data and assumptions:
\* a projection computed before the latest set_historical or set_assumptions
\* is never used.
C27_ValuationIsFresh ==
    Stale_valued =>
        /\ ret = Stale_fresh(fcfe_historical, fcfe_ke_components, fcfe_assumptions,
                             args.shares_outstanding)
        /\ Stale_projection_current

\* the valuation is fresh when the model held no projection, or the
\* projection of its current data and assumptions, before the call
C27_FreshWhenReprojected ==
    [][(/\ op' = "calculate_equity_value"
        /\ ret'.kind = "return"
        /\ (fcfe_projections = EmptyDict \/ Stale_projection_current))
       => /\ ret' = Stale_fresh(fcfe_historical, fcfe_ke_components,
                                fcfe_assumptions, Num(100))
          /\ Return(fcfe_projections') =
                FCFE_project_fcfe(fcfe_historical, fcfe_assumptions)]_vars

----------------------------------------------------------------------------
(* What a valuation method changes: a DDMModel and a RelativeValuation     *)
(* called side by side.                                                    *)

\* set_financials of a company with earnings, book value and EBITDA, or
\* without earnings
Frame_set_financials ==
    /\ calls < RV_MaxCalls
    /\ \E eps \in {Zero, Num(100)} :
        /\ Call("set_financials",
                [eps |-> eps, bvps |-> Num(10000), ebitda |-> Num(300),
                 net_debt |-> Num(100), cash |-> Num(50),
                 shares_outstanding |-> Num(100), current_price |-> Num(20000)],
                Return(None), RV_MaxCalls)
        /\ rv_financials' = set_financials(eps, Num(10000), Num(300), Num(100),
                                           Num(50), Num(100), Num(20000),
                                           None, None, None)
        /\ UNCHANGED <<rv_peers, rv_results, ddmVars, fcfeVars, dcfVars>>

\* the two peers of the docstring
Frame_Peers ==
    {<<[pe |-> Num(12), pb |-> Num(2), ev_ebitda |-> Num(8)],
       [pe |-> Num(15), pb |-> Num(3), ev_ebitda |-> Num(10)]>>}

NextFrame ==
    \/ DDM_set_historical_dividends
    \/ DDM_calculate_ke
    \/ DDM_gordon_growth
    \/ DDM_two_stage_ddm
    \/ DDM_h_model
    \/ Frame_set_financials
    \/ RV_set_peer_multiples(Frame_Peers, RV_MaxCalls)
    \/ RV_valuation_pe
    \/ RV_valuation_pb
    \/ RV_valuation_ev_ebitda

SpecFrame == Init /\ [][NextFrame]_vars

\* the key of self.results each method stores under
Frame_key ==
    [gordon_growth |-> "gordon", two_stage_ddm |-> "two_stage", h_model |-> "h_model",
     valuation_pe |-> "pe", valuation_pb |-> "pb", valuation_ev_ebitda |-> "ev_ebitda"]

\* after is before with the entry under key set to result, and nothing else
Frame_only_entry(before, after, key, result) ==
    /\ DOMAIN after = DOMAIN before \cup {key}
    /\ after[key] = result
    /\ \A k \in DOMAIN before : k # key => after[k] = before[k]

\* the step is a call of a valuation method that returned
Frame_method_returned ==
    /\ op' \in DOMAIN Frame_key
    /\ ret'.kind = "return"

\* the results the method called works on, before and after the step
Frame_results_before == IF op' \in DDM_variants THEN ddm_results ELSE rv_results
Frame_results_after == IF op' \in DDM_variants THEN ddm_results' ELSE rv_results'

\* C28: a valuation method (gordon_growth, two_stage_ddm, h_model,
\* valuation_pe, valuation_pb, valuation_ev_ebitda) that returns an error
\* leaves self.results -- an earlier successful result under its key included
\* -- and every other field of the model as they were; a successful call
\* changes only that method's entry of self.results.
C28_ErrorLeavesResults ==
    [][Frame_method_returned =>
        /\ UNCHANGED <<ddm_historical, ddm_ke_components, rv_financials, rv_peers>>
        /\ op' \in DDM_variants => UNCHANGED rv_results
        /\ op' \notin DDM_variants => UNCHANGED ddm_results
        /\ IF "error" \in DOMAIN ret'.val
           THEN Frame_results_after = Frame_results_before
           ELSE Frame_only_entry(Frame_results_before, Frame_results_after,
                                 Frame_key[op'], ret'.val)]_vars

\* a Gordon call that failed on a model keeping its earlier Gordon result
C28_Witness ==
    /\ op = "gordon_growth"
    /\ "error" \in DOMAIN ret.val
    /\ "gordon" \in DOMAIN ddm_results
    /\ "target_price" \in DOMAIN ddm_results["gordon"]

\* a P/E call that failed on a model keeping its earlier P/E result
C28_WitnessRV ==
    /\ op = "valuation_pe"
    /\ ret.kind = "return"
    /\ "error" \in DOMAIN ret.val
    /\ "pe" \in DOMAIN rv_results
    /\ "target_price" \in DOMAIN rv_results["pe"]

----------------------------------------------------------------------------
(* The fair values of run_all once single methods are called again.        *)

NextFair ==
    \/ DDM_run_all_call
    \/ DDM_gordon_growth
    \/ DDM_two_stage_ddm
    \/ DDM_h_model
    \/ Frame_set_financials
    \/ RV_run_all_call
    \/ RV_valuation_pe
    \/ RV_valuation_pb
    \/ RV_valuation_ev_ebitda

SpecFair == Init /\ [][NextFair]_vars

\* results carries no fair values, or those of the method results it holds
\* under keys
Fair_current(results, keys) ==
    (FairKeys \cap DOMAIN results # {}) =>
        /\ FairKeys \subseteq DOMAIN results
        /\ \A i \in 1..Len(keys) : keys[i] \in DOMAIN results
        /\ IsFairRange(PricesOf([i \in 1..Len(keys) |-> results[keys[i]]]),
                       results["fair_value_low"], results["fair_value_avg"],
                       results["fair_value_high"])
        /\ LeqQ(results["fair_value_low"], results["fair_value_avg"])
        /\ LeqQ(results["fair_value_avg"], results["fair_value_high"])

\* C29: in every state of a DDMModel or a RelativeValuation reached by run_all
\* and single valuation calls, if results holds fair_value_low / avg / high
\* then low <= avg <= high and they are the min, mean and max of the strictly
\* positive target prices of the method results stored in results.
C29_FairValuesCurrent ==
    /\ Fair_current(ddm_results, <<"gordon", "two_stage", "h_model">>)
    /\ Fair_current(rv_results, <<"pe", "pb", "ev_ebitda">>)

\* the same in the states a run_all has just produced
C29_FairValuesAfterRunAll ==
    /\ RunAll_ddm =>
          Fair_current(ddm_results, <<"gordon", "two_stage", "h_model">>)
    /\ (op = "run_all" /\ "target_pe" \in DOMAIN args) =>
          Fair_current(rv_results, <<"pe", "pb", "ev_ebitda">>)

----------------------------------------------------------------------------
(* sensitivity_gordon on a model in use, against gordon_growth.            *)

\* the Ke rows and growth columns the sweeps are cut from
Refine_KeGrid == <<Rat(1, 10), Rat(3, 100), Zero>>
Refine_GGrid == <<Rat(3, 100), Rat(1, 10), Rat(-1, 100)>>

Refine_sensitivity_gordon ==
    /\ calls < DDM_MaxCalls
    /\ \E d0 \in Arg_D0,
          ke_range \in PrefixesUpTo(Refine_KeGrid, MaxRange),
          g_range \in PrefixesUpTo(Refine_GGrid, MaxRange) :
        /\ Call("sensitivity_gordon",
                [d0 |-> d0, ke_range |-> ke_range, g_range |-> g_range],
                Return(sensitivity_gordon(d0, ke_range, g_range)), DDM_MaxCalls)
        /\ UNCHANGED <<ddmVars, fcfeVars, rvVars, dcfVars>>

NextRefine ==
    \/ DDM_set_historical_dividends
    \/ DDM_calculate_ke
    \/ DDM_gordon_growth
    \/ Refine_sensitivity_gordon

SpecRefine == Init /\ [][NextRefine]_vars

\* what gordon_growth(d0, g, ke) returns on the model as it is
Refine_gordon(d0, g, ke) ==
    gordon_growth(ddm_historical, ddm_ke_components, d0, g, ke).val

\* the cell is the target price of the Gordon call, None when that is an error
Refine_cell_agrees(cell, r) ==
    /\ ("target_price" \in DOMAIN r) => cell = r["target_price"]
    /\ (cell = None) <=> ("error" \in DOMAIN r)

Refine_cells_agree ==
    op = "sensitivity_gordon" =>
        /\ ret.kind = "return"
        /\ \A i \in 1..Len(args.ke_range) : \A j \in 1..Len(args.g_range) :
              Refine_cell_agrees(ret.val[i][j],
                                 Refine_gordon(args.d0, args.g_range[j],
                                               args.ke_range[i]))

\* C30: sensitivity_gordon agrees with gordon_growth and only reads: for every
\* d0, Ke and g the cell is the target_price of gordon_growth(d0, g, Ke) when
\* that call succeeds and None exactly when it returns an error, and the call
\* leaves historical, ke_components and results as they were.
C30_SensitivityRefinesGordon ==
    /\ []Refine_cells_agree
    /\ [][op' = "sensitivity_gordon" =>
            UNCHANGED <<ddm_historical, ddm_ke_components, ddm_results>>]_vars

\* a 2 x 2 sweep with a null and a priced cell on a model that holds a history
\* or a Ke or a stored result
C30_Witness ==
    /\ op = "sensitivity_gordon"
    /\ args.d0 = Num(1000)
    /\ Len(args.ke_range) = 2 /\ Len(args.g_range) = 2
    /\ ret.val[1][1] = Rat(103000, 7)
    /\ ret.val[2][1] = None
    /\ ddm_results # EmptyDict

====
